---- MODULE Spec2Model ----
(***************************************************************************)
(* Model of the barq-hub dispatch core.                                    *)
(*                                                                         *)
(* Provider-Account Manager (src/backend/providers/account_manager.rs):    *)
(* accounts with time-windowed quota tiers, account selection with         *)
(* return-to-original, usage debit, default handling.                      *)
(*                                                                         *)
(* Time is counted in whole minutes.  Fields that carry no control flow    *)
(* (name, config, models, created_at, updated_at) are not represented.     *)
(***************************************************************************)
EXTENDS Integers, FiniteSets, Sequences, TLC

\* ------------------------------------------------------------------ bounds

\* Number of clock advances a behaviour may take.
MaxAdvances == 1
\* Cap on tokens_used kept by the guards of record_usage.
MaxUsed == 1

\* u64::MAX of min_remaining_tokens().unwrap_or(u64::MAX), as the largest
\* integer the checker represents; it exceeds every limit of the model.
U64_MAX == 2147483647

AccountIds == {"a1", "a2"}
ProviderIds == {"openai", "gemini"}
Priorities == {1}
QuotaPeriods == {"Minute", "Hour", "Day", "Month"}
\* Clock advances offered to the environment (minutes): past a Minute window.
\* SpecQuota moves the clock by one minute and by one hour instead.
AdvanceSteps == {2}

\* ------------------------------------------------------- QuotaPeriod / Tier

\* QuotaPeriod::duration, in minutes.
duration(period) ==
    CASE period = "Minute" -> 1
      [] period = "Hour"   -> 60
      [] period = "Day"    -> 1440
      [] period = "Month"  -> 43200

\* An Option<T> is the empty set (None) or a singleton (Some).
None == {}
Some(x) == {x}

\* QuotaTier::new
QuotaTier_new(period, token_limit, request_limit, t) ==
    [period |-> period, token_limit |-> token_limit,
     request_limit |-> request_limit,
     tokens_used |-> 0, requests_used |-> 0, period_start |-> t]

\* QuotaTier::is_period_expired; t is Utc::now().
is_period_expired(tier, t) ==
    t > tier.period_start + duration(tier.period)

\* QuotaTier::reset_if_expired: the tier after the call.
reset_if_expired(tier, t) ==
    IF is_period_expired(tier, t)
    THEN [tier EXCEPT !.tokens_used = 0, !.requests_used = 0, !.period_start = t]
    ELSE tier

\* QuotaTier::has_quota_available (non-mutating).
QuotaTier_has_quota_available(tier, t) ==
    IF is_period_expired(tier, t) THEN TRUE
    ELSE IF tier.tokens_used >= tier.token_limit THEN FALSE
    ELSE IF \E l \in tier.request_limit : tier.requests_used >= l THEN FALSE
    ELSE TRUE

\* QuotaTier::has_quota (mutating): the value returned; the tier becomes
\* reset_if_expired(tier, t).
QuotaTier_has_quota(tier, t) ==
    QuotaTier_has_quota_available(reset_if_expired(tier, t), t)

\* Mutant of QuotaTier::record_usage: the debit without the lazy reset.
QuotaTier_record_usage_no_reset(tier, tokens, requests, t) ==
    [tier EXCEPT !.tokens_used = tier.tokens_used + tokens,
                 !.requests_used = tier.requests_used + requests]

\* QuotaTier::record_usage: the tier after the call.
QuotaTier_record_usage(tier, tokens, requests, t) ==
    LET r == reset_if_expired(tier, t)
    IN [r EXCEPT !.tokens_used = r.tokens_used + tokens,
                 !.requests_used = r.requests_used + requests]

\* QuotaTier::remaining_tokens
remaining_tokens(tier) ==
    IF tier.tokens_used >= tier.token_limit THEN 0
    ELSE tier.token_limit - tier.tokens_used

\* ---------------------------------------------------------- ProviderAccount

\* The HashMap<QuotaPeriod, QuotaTier> is a function whose domain is the set
\* of periods that have a tier.
NoQuotas == [p \in {} |-> 0]

\* ProviderAccount::set_quota: the quotas after the call.
set_quota(quotas, period, token_limit, request_limit, t) ==
    [p \in DOMAIN quotas \cup {period} |->
        IF p = period THEN QuotaTier_new(period, token_limit, request_limit, t)
        ELSE quotas[p]]

\* ProviderAccount::remove_quota: the quotas after the call.
remove_quota(quotas, period) ==
    [p \in DOMAIN quotas \ {period} |-> quotas[p]]

\* ProviderAccount::has_quota_available (non-mutating).
ProviderAccount_has_quota_available(acct, t) ==
    \A p \in DOMAIN acct.quotas : QuotaTier_has_quota_available(acct.quotas[p], t)

\* ProviderAccount::has_quota (mutating).  The loop visits the tiers in the
\* HashMap's iteration order and stops at the first tier without quota, so the
\* tiers visited before it are arbitrary among those that pass.  The set of
\* outcomes [ok, quotas]: the value returned and the quotas after the call.
ProviderAccount_has_quota(acct, t) ==
    LET q == acct.quotas
        failing == {p \in DOMAIN q : ~QuotaTier_has_quota(q[p], t)}
        passing == DOMAIN q \ failing
        visit(S) == [p \in DOMAIN q |-> IF p \in S THEN reset_if_expired(q[p], t) ELSE q[p]]
    IN IF failing = {}
       THEN {[ok |-> TRUE, quotas |-> visit(DOMAIN q)]}
       ELSE {[ok |-> FALSE, quotas |-> visit(S \cup {f})] :
                f \in failing, S \in SUBSET passing}

\* ProviderAccount::record_usage: the quotas after the call.
ProviderAccount_record_usage(acct, tokens, requests, t) ==
    [p \in DOMAIN acct.quotas |-> QuotaTier_record_usage(acct.quotas[p], tokens, requests, t)]

SetMin(S) == CHOOSE x \in S : \A y \in S : x <= y

\* ProviderAccount::min_remaining_tokens().unwrap_or(u64::MAX)
min_remaining_tokens(acct) ==
    IF DOMAIN acct.quotas = {} THEN U64_MAX
    ELSE SetMin({remaining_tokens(acct.quotas[p]) : p \in DOMAIN acct.quotas})

\* Mutant of ProviderAccount::blocking_tier: it names the first tier visited.
blocking_tier_first_visited(acct, t) ==
    {[result |-> Some(p),
      quotas |-> [x \in DOMAIN acct.quotas |->
                     IF x = p THEN reset_if_expired(acct.quotas[x], t) ELSE acct.quotas[x]]] :
        p \in DOMAIN acct.quotas}
    \cup IF DOMAIN acct.quotas = {} THEN {[result |-> None, quotas |-> acct.quotas]} ELSE {}

\* ProviderAccount::blocking_tier (mutating): the loop calls tier.has_quota()
\* in the HashMap's iteration order and returns the period of the first tier
\* without quota.  The set of outcomes [result, quotas].
blocking_tier(acct, t) ==
    LET q == acct.quotas
        failing == {p \in DOMAIN q : ~QuotaTier_has_quota(q[p], t)}
        passing == DOMAIN q \ failing
        visit(S) == [p \in DOMAIN q |-> IF p \in S THEN reset_if_expired(q[p], t) ELSE q[p]]
    IN IF failing = {}
       THEN {[result |-> None, quotas |-> visit(DOMAIN q)]}
       ELSE {[result |-> Some(f), quotas |-> visit(S \cup {f})] :
                f \in failing, S \in SUBSET passing}

\* ----------------------------------------------------- ProviderAccountManager

VARIABLES
    accounts,   \* ProviderAccountManager.accounts: id -> account, domain = stored ids
    original,   \* ProviderAccountManager.original_accounts: provider_id -> account id
    now,        \* Utc::now(), in minutes
    advances,   \* clock advances taken so far
    ret         \* the last manager call and what it returned

mgrVars == <<accounts, original, now, advances, ret>>

\* The tasks that call into the manager and the repository concurrently.
Tasks == {"t1", "t2"}
Idle == [at |-> "idle"]

VARIABLES
    lock,       \* the RwLock around accounts: who holds write() and who holds read()
    pc,         \* task -> where the task stands inside a manager call
    debited     \* id -> period -> tokens debited by the record_usage calls completed
                \* in the tier's current window (history, not program state)

concVars == <<lock, pc, debited>>

VARIABLES
    db,         \* the provider_accounts table: id -> row
    sess        \* task -> where the task stands inside a repository call

repoVars == <<db, sess>>

VARIABLES
    adapters,             \* SmartRouter.adapters: the (id, adapter) pairs, in order
    round_robin_counter,  \* SmartRouter.round_robin_counter
    health_scores,        \* SmartRouter.health_scores: key -> score
    rt,                   \* task -> where the task stands inside route_with_fallback
    attempts,             \* chat attempts made through route_with_fallback so far
    selections,           \* round-robin selections made so far (history)
    rr_lock               \* the RwLock around round_robin_counter

routerVars ==
    <<adapters, round_robin_counter, health_scores, rt, attempts, selections, rr_lock>>

VARIABLES
    entries,    \* CostManager.entries: the cost ledger
    budgets,    \* CostManager.budgets: entity id -> budget
    rc          \* task -> where the task stands inside CostManager::record_cost

costVars == <<entries, budgets, rc>>

VARIABLES
    workflow,   \* the Workflow under construction: its nodes and edges, in order
    executions  \* StateStore.executions: the executions saved, in creation order

wfVars == <<workflow, executions>>

\* The request path: router and cost manager; and the workflow engine.
svcVars == <<routerVars, costVars, wfVars>>

\* Everything outside the manager's own fields.
auxVars == <<concVars, repoVars, svcVars>>
vars == <<mgrVars, concVars, repoVars, svcVars>>

Put(f, k, v) == [x \in DOMAIN f \cup {k} |-> IF x = k THEN v ELSE f[x]]
Drop(f, k) == [x \in DOMAIN f \ {k} |-> f[x]]

\* Ids of the accounts of a provider.
OfProvider(accts, provider_id) ==
    {id \in DOMAIN accts : accts[id].provider_id = provider_id}

\* ProviderAccountManager::new, no task inside a call, an empty table.
InitManager ==
    /\ accounts = [id \in {} |-> 0]
    /\ original = [p \in {} |-> ""]
    /\ now = 0
    /\ advances = 0
    /\ ret = [op |-> "new"]
    /\ lock = [writer |-> None, readers |-> {}]
    /\ pc = [t \in Tasks |-> Idle]
    /\ debited = [id \in {} |-> 0]
    /\ db = [id \in {} |-> 0]
    /\ sess = [t \in Tasks |-> Idle]

\* CostManager::new
InitCost ==
    /\ entries = <<>>
    /\ budgets = [e \in {} |-> 0]
    /\ rc = [t \in Tasks |-> Idle]

\* SmartRouter::new(providers) but for the adapter list.
InitRouter ==
    /\ round_robin_counter = 0
    /\ health_scores = [k \in {} |-> 0]
    /\ rt = [t \in Tasks |-> Idle]
    /\ attempts = 0
    /\ selections = 0
    /\ rr_lock = [writer |-> None, readers |-> {}]

\* Workflow::new and StateStore::new
Workflow_new == [nodes |-> <<>>, edges |-> <<>>]

InitWorkflow ==
    /\ workflow = Workflow_new
    /\ executions = <<>>

\* The state after construction, the router built without providers.
Init ==
    /\ InitManager
    /\ InitCost
    /\ InitRouter
    /\ InitWorkflow
    /\ adapters = <<>>

\* ProviderAccountManager::add_account
add_account(id, account) ==
    LET is_first == ~\E a \in DOMAIN accounts : accounts[a].provider_id = account.provider_id
        stored == IF is_first THEN [account EXCEPT !.is_default = TRUE] ELSE account
    IN /\ accounts' = Put(accounts, id, stored)
       /\ ret' = [op |-> "add", result |-> "Ok"]
       /\ UNCHANGED <<original, now, advances>>

\* The candidate tuples of get_available_account:
\* (id, is_default, priority, min_remaining_tokens, has_quota_available).
Candidates(provider_id) ==
    {[id |-> id,
      is_default |-> accounts[id].is_default,
      priority |-> accounts[id].priority,
      remaining |-> min_remaining_tokens(accounts[id]),
      has_quota |-> ProviderAccount_has_quota_available(accounts[id], now)] :
        id \in {a \in OfProvider(accounts, provider_id) : accounts[a].enabled}}

\* Mutant of the comparator: equal priorities are ordered by ascending
\* remaining tokens.
SortsBefore_ascending_remaining(a, b) ==
    IF a.is_default /\ ~b.is_default THEN TRUE
    ELSE IF ~a.is_default /\ b.is_default THEN FALSE
    ELSE \/ a.priority < b.priority
         \/ a.priority = b.priority /\ a.remaining < b.remaining

\* The comparator of candidates.sort_by: a sorts strictly before b.
SortsBefore(a, b) ==
    IF a.is_default /\ ~b.is_default THEN TRUE
    ELSE IF ~a.is_default /\ b.is_default THEN FALSE
    ELSE \/ a.priority < b.priority
         \/ a.priority = b.priority /\ a.remaining > b.remaining

\* The elements of S that can stand first among S after the stable sort: the
\* HashMap's iteration order decides among those the comparator calls equal.
FirstSorted(S) == {c \in S : ~\E d \in S : SortsBefore(d, c)}

\* Mutant of the return-to-original branch: the entry is not removed.
return_to_original_keeps_entry(provider_id, oid, accts) ==
    [result |-> oid, via |-> "original", accounts |-> accts, original |-> original]

\* The return-to-original branch of get_available_account once acc.has_quota()
\* answered true: original.remove(provider_id); return Some(acc.clone()).
\* accts is the account map after has_quota's lazy reset.
return_to_original(provider_id, oid, accts) ==
    [result |-> oid, via |-> "original", accounts |-> accts,
     original |-> Drop(original, provider_id)]

\* The body of get_available_account: the set of outcomes
\* [result, accounts, original] it can produce in the current state (more than
\* one where the HashMap's iteration order decides).  result is the id of the
\* account returned, or "None"; via names the return statement taken: "empty"
\* (no candidates), "original" (return-to-original) or "walk" (the final one).
pick_outcomes(provider_id) ==
    LET candidates == Candidates(provider_id)
        withQuota == {c \in candidates : c.has_quota}
        defaults == {c \in candidates : c.is_default}
        \* for (id, is_default, _, _, has_quota) in &candidates { if *has_quota .. break }
        walk == IF withQuota = {} THEN {"None"} ELSE {c.id : c \in FirstSorted(withQuota)}
        is_def(id) == \E c \in candidates : c.id = id /\ c.is_default
        \* need_to_store_default && !original.contains_key(provider_id)
        stored(id, accts) ==
            IF id # "None" /\ ~is_def(id) /\ provider_id \notin DOMAIN original /\ defaults # {}
            THEN {[result |-> id, via |-> "walk", accounts |-> accts,
                   original |-> Put(original, provider_id, d.id)] : d \in FirstSorted(defaults)}
            ELSE {[result |-> id, via |-> "walk", accounts |-> accts, original |-> original]}
        walked(accts) == UNION {stored(id, accts) : id \in walk}
    IN IF candidates = {}
       THEN {[result |-> "None", via |-> "empty", accounts |-> accounts, original |-> original]}
       ELSE IF provider_id \in DOMAIN original /\ original[provider_id] \in DOMAIN accounts
       THEN LET oid == original[provider_id]
                returned(out) ==
                    LET accts == [accounts EXCEPT ![oid].quotas = out.quotas]
                    IN IF out.ok
                       THEN {return_to_original(provider_id, oid, accts)}
                       ELSE walked(accts)
            IN UNION {returned(out) : out \in ProviderAccount_has_quota(accounts[oid], now)}
       ELSE walked(accounts)

\* ProviderAccountManager::get_available_account
get_available_account(provider_id) ==
    \E o \in pick_outcomes(provider_id) :
        /\ accounts' = o.accounts
        /\ original' = o.original
        /\ ret' = [op |-> "pick", provider_id |-> provider_id, result |-> o.result,
                   via |-> o.via]
        /\ UNCHANGED <<now, advances>>

\* ProviderAccountManager::record_usage
record_usage(account_id, tokens, requests) ==
    /\ accounts' =
          IF account_id \in DOMAIN accounts
          THEN [accounts EXCEPT ![account_id].quotas =
                   ProviderAccount_record_usage(accounts[account_id], tokens, requests, now)]
          ELSE accounts
    /\ ret' = [op |-> "record_usage"]
    /\ UNCHANGED <<original, now, advances>>

\* The loops of update_account over update.quotas and update.remove_quotas.
RECURSIVE ApplyQuotaUpdates(_, _, _)
ApplyQuotaUpdates(quotas, updates, t) ==
    IF updates = <<>> THEN quotas
    ELSE ApplyQuotaUpdates(
            set_quota(quotas, Head(updates).period, Head(updates).token_limit,
                      Head(updates).request_limit, t),
            Tail(updates), t)

RECURSIVE ApplyQuotaRemovals(_, _)
ApplyQuotaRemovals(quotas, periods) ==
    IF periods = <<>> THEN quotas
    ELSE ApplyQuotaRemovals(remove_quota(quotas, Head(periods)), Tail(periods))

\* The account after update_account applied the AccountUpdate.
ApplyUpdate(acct, update, t) ==
    [acct EXCEPT
        !.enabled = IF update.enabled = None THEN @ ELSE CHOOSE e \in update.enabled : TRUE,
        !.priority = IF update.priority = None THEN @ ELSE CHOOSE e \in update.priority : TRUE,
        !.quotas = ApplyQuotaRemovals(ApplyQuotaUpdates(@, update.quotas, t),
                                      update.remove_quotas)]

\* ProviderAccountManager::update_account
update_account(account_id, update) ==
    /\ IF account_id \in DOMAIN accounts
       THEN /\ accounts' = [accounts EXCEPT ![account_id] = ApplyUpdate(@, update, now)]
            /\ ret' = [op |-> "update", result |-> "Ok"]
       ELSE /\ UNCHANGED accounts
            /\ ret' = [op |-> "update", result |-> "NotFound"]
    /\ UNCHANGED <<original, now, advances>>

\* Mutant of delete_account: removing the default promotes a remaining account
\* of the provider.
delete_account_promoting(account_id) ==
    /\ accounts' =
          LET rest == Drop(accounts, account_id)
              heirs == IF account_id \in DOMAIN accounts /\ accounts[account_id].is_default
                       THEN OfProvider(rest, accounts[account_id].provider_id)
                       ELSE {}
          IN [id \in DOMAIN rest |->
                 IF heirs # {} /\ id = (CHOOSE h \in heirs : TRUE)
                 THEN [rest[id] EXCEPT !.is_default = TRUE]
                 ELSE rest[id]]
    /\ ret' = IF account_id \in DOMAIN accounts
              THEN [op |-> "delete", result |-> TRUE,
                    provider_id |-> accounts[account_id].provider_id,
                    was_default |-> accounts[account_id].is_default]
              ELSE [op |-> "delete", result |-> FALSE]
    /\ UNCHANGED <<original, now, advances>>

\* ProviderAccountManager::delete_account; ret also keeps what the removed
\* account was, for the statements about the call that follows a delete.
delete_account(account_id) ==
    /\ accounts' = Drop(accounts, account_id)
    /\ ret' = IF account_id \in DOMAIN accounts
              THEN [op |-> "delete", result |-> TRUE,
                    provider_id |-> accounts[account_id].provider_id,
                    was_default |-> accounts[account_id].is_default]
              ELSE [op |-> "delete", result |-> FALSE]
    /\ UNCHANGED <<original, now, advances>>

\* ProviderAccountManager::set_default
set_default(provider_id, account_id) ==
    /\ accounts' = [id \in DOMAIN accounts |->
                      IF accounts[id].provider_id = provider_id
                      THEN [accounts[id] EXCEPT !.is_default = (id = account_id)]
                      ELSE accounts[id]]
    /\ ret' = [op |-> "set_default"]
    /\ UNCHANGED <<original, now, advances>>

\* The has_quota and blocking_tier fields get_detailed_statuses computes for
\* one account: acc = a.clone(); acc.blocking_tier(); then acc.has_quota().
StatusOf(acct, t) ==
    UNION {{[has_quota |-> h.ok, blocking_tier |-> b.result] :
               h \in ProviderAccount_has_quota([acct EXCEPT !.quotas = b.quotas], t)} :
           b \in blocking_tier(acct, t)}

\* The vectors get_detailed_statuses(provider_id) can return, by account id.
detailed_statuses(provider_id) ==
    LET ids == OfProvider(accounts, provider_id)
    IN {f \in [ids -> UNION {StatusOf(accounts[id], now) : id \in ids}] :
           \A id \in ids : f[id] \in StatusOf(accounts[id], now)}

\* ProviderAccountManager::get_detailed_statuses: the stored accounts are read
\* under accounts.read() and every mutating check runs on a clone.
get_detailed_statuses(provider_id) ==
    /\ \E f \in detailed_statuses(provider_id) :
          ret' = [op |-> "statuses", provider_id |-> provider_id, statuses |-> f]
    /\ UNCHANGED <<accounts, original, now, advances>>

\* The clock: Utc::now() moves forward between calls.
Advance(d) ==
    /\ advances < MaxAdvances
    /\ now' = now + d
    /\ advances' = advances + 1
    /\ ret' = [op |-> "advance"]
    /\ UNCHANGED <<accounts, original>>

\* ------------------------------------------------------------ inputs of Spec

\* Accounts handed to add_account: any provider, either flag, fresh tiers.
MgrTokenLimits == {1}
MgrTokens == {1}
MgrQuotas ==
    {NoQuotas} \cup {set_quota(NoQuotas, "Minute", l, None, now) : l \in MgrTokenLimits}
MgrAccounts ==
    [provider_id : ProviderIds, enabled : {TRUE}, is_default : BOOLEAN,
     priority : Priorities, quotas : MgrQuotas]

NoUpdate == [enabled |-> None, priority |-> None, quotas |-> <<>>, remove_quotas |-> <<>>]
MgrUpdates ==
    {[NoUpdate EXCEPT !.enabled = Some(e)] : e \in BOOLEAN}
    \cup {[NoUpdate EXCEPT !.priority = Some(p)] : p \in Priorities}
    \cup {[NoUpdate EXCEPT !.quotas =
              <<[period |-> "Minute", token_limit |-> l, request_limit |-> None]>>] :
            l \in MgrTokenLimits}
    \cup {[NoUpdate EXCEPT !.remove_quotas = <<"Minute">>]}

\* record_usage stays under the cap on tokens_used.
UnderCap(account_id, tokens) ==
    account_id \in DOMAIN accounts =>
        \A p \in DOMAIN accounts[account_id].quotas :
            accounts[account_id].quotas[p].tokens_used + tokens <= MaxUsed

Next ==
    \/ \E id \in AccountIds, account \in MgrAccounts : add_account(id, account) /\ UNCHANGED auxVars
    \/ \E p \in ProviderIds : get_available_account(p) /\ UNCHANGED auxVars
    \/ \E id \in AccountIds, tokens \in MgrTokens :
         UnderCap(id, tokens) /\ record_usage(id, tokens, 1) /\ UNCHANGED auxVars
    \/ \E id \in AccountIds, update \in MgrUpdates : update_account(id, update) /\ UNCHANGED auxVars
    \/ \E id \in AccountIds : delete_account(id) /\ UNCHANGED auxVars
    \/ \E p \in ProviderIds, id \in AccountIds : set_default(p, id) /\ UNCHANGED auxVars
    \/ \E d \in AdvanceSteps : Advance(d) /\ UNCHANGED auxVars

Spec == Init /\ [][Next]_vars

\* The manager as the admin API drives it: every add is of an account made by
\* ProviderAccount::new (fresh id, is_default = false), as create_account does.
MgrNewAccounts == {account \in MgrAccounts : ~account.is_default}

NextAdmin ==
    \/ \E id \in AccountIds \ DOMAIN accounts, account \in MgrNewAccounts :
         add_account(id, account) /\ UNCHANGED auxVars
    \/ \E p \in ProviderIds : get_available_account(p) /\ UNCHANGED auxVars
    \/ \E id \in AccountIds, tokens \in MgrTokens :
         UnderCap(id, tokens) /\ record_usage(id, tokens, 1) /\ UNCHANGED auxVars
    \/ \E id \in AccountIds, update \in MgrUpdates : update_account(id, update) /\ UNCHANGED auxVars
    \/ \E id \in AccountIds : delete_account(id) /\ UNCHANGED auxVars
    \/ \E p \in ProviderIds, id \in AccountIds : set_default(p, id) /\ UNCHANGED auxVars
    \/ \E d \in AdvanceSteps : Advance(d) /\ UNCHANGED auxVars

SpecAdmin == Init /\ [][NextAdmin]_vars

\* ------------------------------------------------------- inputs of SpecQuota

\* One account with up to two tiers, debited with several token and request
\* counts, the clock moving by a minute or an hour.
MaxQuotaUsed == 3
QuotaTokenLimits == {2, 3}
QuotaRequestLimits == {None, Some(2)}
QuotaTokens == {1, 2}
QuotaRequests == {1, 2}
QuotaAdvanceSteps == {1, 60}
QuotaAccount ==
    [provider_id |-> "openai", enabled |-> TRUE, is_default |-> FALSE,
     priority |-> 1, quotas |-> NoQuotas]
QuotaUpdates ==
    {[NoUpdate EXCEPT !.quotas =
          <<[period |-> q, token_limit |-> l, request_limit |-> rl]>>] :
        q \in {"Minute", "Hour"}, l \in QuotaTokenLimits, rl \in QuotaRequestLimits}
    \cup {[NoUpdate EXCEPT !.remove_quotas = <<q>>] : q \in {"Minute", "Hour"}}

QuotaUnderCap(account_id, tokens, requests) ==
    account_id \in DOMAIN accounts =>
        \A p \in DOMAIN accounts[account_id].quotas :
            /\ accounts[account_id].quotas[p].tokens_used + tokens <= MaxQuotaUsed
            /\ accounts[account_id].quotas[p].requests_used + requests <= MaxQuotaUsed

NextQuota ==
    \/ add_account("a1", QuotaAccount) /\ UNCHANGED auxVars
    \/ \E update \in QuotaUpdates : update_account("a1", update) /\ UNCHANGED auxVars
    \/ \E tokens \in QuotaTokens, requests \in QuotaRequests :
         QuotaUnderCap("a1", tokens, requests) /\ record_usage("a1", tokens, requests) /\ UNCHANGED auxVars
    \/ get_detailed_statuses("openai") /\ UNCHANGED auxVars
    \/ \E d \in QuotaAdvanceSteps : Advance(d) /\ UNCHANGED auxVars

SpecQuota == Init /\ [][NextQuota]_vars

\* ------------------------------------------------ the manager under its lock

\* Every mutating method of the manager runs under self.accounts.write().await
\* and get_detailed_statuses under self.accounts.read().await.  tokio's RwLock
\* grants write() when nobody holds the lock and read() when no writer does.
\* get_available_account also takes original_accounts.write(); nothing else
\* takes that lock, and always after the accounts lock, so it adds no state.

\* Mutant of write(): granted whoever holds the lock.
CanWrite_unguarded(l) == TRUE

CanWrite(l) == l.writer = None /\ l.readers = {}
CanRead(l) == l.writer = None

\* Cap on the tokens debited within one window of a tier.
MaxDebited == 3
ConcTokenLimits == {2}
ConcTokens == {1, 2}
ConcAccount ==
    [provider_id |-> "openai", enabled |-> TRUE, is_default |-> FALSE, priority |-> 1,
     quotas |-> NoQuotas]
ConcUpdates ==
    {[NoUpdate EXCEPT !.quotas =
          <<[period |-> "Minute", token_limit |-> l, request_limit |-> None]>>] :
        l \in ConcTokenLimits}
    \cup {[NoUpdate EXCEPT !.remove_quotas = <<"Minute">>]}

\* The history of debits after a step that leaves the accounts accts2: a tier
\* that is new (created by QuotaTier::new: the pairs in fresh) or whose window
\* restarted (its period_start changed) starts from zero; a completed
\* record_usage(id0, tokens, _) adds tokens to every tier of id0.
Debited(accts2, fresh, id0, tokens) ==
    [id \in DOMAIN accts2 |-> [p \in DOMAIN accts2[id].quotas |->
        (IF \/ <<id, p>> \in fresh
            \/ id \notin DOMAIN accounts
            \/ p \notin DOMAIN accounts[id].quotas
            \/ accts2[id].quotas[p].period_start # accounts[id].quotas[p].period_start
         THEN 0 ELSE debited[id][p])
        + (IF id = id0 THEN tokens ELSE 0)]]

ConcUnderCap(account_id, tokens) ==
    account_id \in DOMAIN debited =>
        \A p \in DOMAIN debited[account_id] : debited[account_id][p] + tokens <= MaxDebited

\* add_account, from write() to the drop of the guard.
locked_add_account(t, id, account) ==
    /\ pc[t] = Idle /\ CanWrite(lock)
    /\ add_account(id, account)
    /\ debited' = Debited(accounts', {<<id, p>> : p \in DOMAIN account.quotas}, "", 0)
    /\ UNCHANGED <<lock, pc, repoVars, svcVars>>

\* get_available_account, from write() to the drop of the guards.
locked_get_available_account(t, provider_id) ==
    /\ pc[t] = Idle /\ CanWrite(lock)
    /\ get_available_account(provider_id)
    /\ debited' = Debited(accounts', {}, "", 0)
    /\ UNCHANGED <<lock, pc, repoVars, svcVars>>

\* update_account, from write() to the drop of the guard.
locked_update_account(t, account_id, update) ==
    /\ pc[t] = Idle /\ CanWrite(lock)
    /\ update_account(account_id, update)
    /\ debited' = Debited(accounts',
                          {<<account_id, update.quotas[i].period>> :
                              i \in DOMAIN update.quotas}, "", 0)
    /\ UNCHANGED <<lock, pc, repoVars, svcVars>>

\* record_usage up to accounts.get_mut(account_id): the task holds write() and
\* the account whose counters account.record_usage is about to read and add to.
record_usage_lock(t, account_id, tokens, requests) ==
    /\ pc[t] = Idle /\ CanWrite(lock)
    /\ lock' = [lock EXCEPT !.writer = Some(t)]
    /\ pc' = [pc EXCEPT ![t] =
                 [at |-> "record_usage", account_id |-> account_id,
                  tokens |-> tokens, requests |-> requests,
                  account |-> IF account_id \in DOMAIN accounts
                              THEN Some(accounts[account_id]) ELSE None]]
    /\ UNCHANGED <<mgrVars, debited, repoVars, svcVars>>

\* record_usage from account.record_usage(tokens, requests) to the drop of the
\* guard: the counters read under the lock, plus the debit, are written back.
record_usage_unlock(t) ==
    /\ pc[t].at = "record_usage"
    /\ accounts' =
          IF pc[t].account # None /\ pc[t].account_id \in DOMAIN accounts
          THEN [accounts EXCEPT ![pc[t].account_id].quotas =
                   ProviderAccount_record_usage(CHOOSE a \in pc[t].account : TRUE,
                                                pc[t].tokens, pc[t].requests, now)]
          ELSE accounts
    /\ debited' = Debited(accounts', {},
                          IF pc[t].account # None THEN pc[t].account_id ELSE "",
                          pc[t].tokens)
    /\ lock' = [lock EXCEPT !.writer = None]
    /\ pc' = [pc EXCEPT ![t] = Idle]
    /\ ret' = [op |-> "record_usage"]
    /\ UNCHANGED <<original, now, advances, repoVars, svcVars>>

\* get_detailed_statuses up to the filter: the task holds read().
get_detailed_statuses_lock(t, provider_id) ==
    /\ pc[t] = Idle /\ CanRead(lock)
    /\ lock' = [lock EXCEPT !.readers = @ \cup {t}]
    /\ pc' = [pc EXCEPT ![t] = [at |-> "statuses", provider_id |-> provider_id]]
    /\ UNCHANGED <<mgrVars, debited, repoVars, svcVars>>

\* get_detailed_statuses from the map over clones to the drop of the guard:
\* has_quota() runs on the clone, the stored accounts stay as they are.
get_detailed_statuses_unlock(t) ==
    /\ pc[t].at = "statuses"
    /\ lock' = [lock EXCEPT !.readers = @ \ {t}]
    /\ pc' = [pc EXCEPT ![t] = Idle]
    /\ \E f \in detailed_statuses(pc[t].provider_id) :
          ret' = [op |-> "statuses", provider_id |-> pc[t].provider_id, statuses |-> f]
    /\ UNCHANGED <<accounts, original, now, advances, debited, repoVars, svcVars>>

NextConc ==
    \/ \E t \in Tasks, id \in AccountIds \ DOMAIN accounts :
         locked_add_account(t, id, ConcAccount)
    \/ \E t \in Tasks : locked_get_available_account(t, "openai")
    \/ \E t \in Tasks, id \in AccountIds, update \in ConcUpdates :
         locked_update_account(t, id, update)
    \/ \E t \in Tasks, id \in AccountIds, tokens \in ConcTokens :
         ConcUnderCap(id, tokens) /\ record_usage_lock(t, id, tokens, 1)
    \/ \E t \in Tasks : record_usage_unlock(t)
    \/ \E t \in Tasks : get_detailed_statuses_lock(t, "openai")
    \/ \E t \in Tasks : get_detailed_statuses_unlock(t)
    \/ \E d \in AdvanceSteps : Advance(d) /\ UNCHANGED auxVars

SpecConc == Init /\ [][NextConc]_vars

\* ------------------------------------------------ ProviderAccountRepository

\* A row of provider_accounts keeps the columns set_default and get_default
\* read and write.  Each SQL statement is one step; the statements of one
\* call run on the pool without a transaction around them.

\* ProviderAccountRepository::create: the INSERT names no is_default column,
\* the row starts without the flag.
repo_create(id, provider_id) ==
    /\ id \notin DOMAIN db
    /\ db' = Put(db, id, [provider_id |-> provider_id, is_default |-> FALSE])
    /\ ret' = [op |-> "repo_create"]
    /\ UNCHANGED <<accounts, original, now, advances, concVars, sess, svcVars>>

\* ProviderAccountRepository::set_default, first statement:
\* UPDATE provider_accounts SET is_default = false WHERE provider_id = $1
repo_set_default_unset(t, provider_id, account_id) ==
    /\ sess[t] = Idle
    /\ db' = [id \in DOMAIN db |->
                IF db[id].provider_id = provider_id
                THEN [db[id] EXCEPT !.is_default = FALSE]
                ELSE db[id]]
    /\ sess' = [sess EXCEPT ![t] =
                   [at |-> "unset", provider_id |-> provider_id, account_id |-> account_id]]
    /\ UNCHANGED <<mgrVars, concVars, svcVars>>

\* ProviderAccountRepository::set_default, second statement and return:
\* UPDATE provider_accounts SET is_default = true WHERE id = $1;
\* Ok(rows_affected > 0)
repo_set_default_set(t) ==
    /\ sess[t].at = "unset"
    /\ db' = [id \in DOMAIN db |->
                IF id = sess[t].account_id
                THEN [db[id] EXCEPT !.is_default = TRUE]
                ELSE db[id]]
    /\ sess' = [sess EXCEPT ![t] = Idle]
    /\ ret' = [op |-> "repo_set_default", provider_id |-> sess[t].provider_id,
               account_id |-> sess[t].account_id,
               result |-> sess[t].account_id \in DOMAIN db]
    /\ UNCHANGED <<accounts, original, now, advances, concVars, svcVars>>

\* ProviderAccountRepository::get_default:
\* SELECT ... WHERE provider_id = $1 AND is_default = true ... LIMIT 1
repo_get_default(provider_id) ==
    /\ \E r \in IF \E id \in OfProvider(db, provider_id) : db[id].is_default
                THEN {id \in OfProvider(db, provider_id) : db[id].is_default}
                ELSE {"None"} :
          ret' = [op |-> "repo_get_default", provider_id |-> provider_id, result |-> r]
    /\ UNCHANGED <<accounts, original, now, advances, concVars, repoVars, svcVars>>

\* The manager and the repository as the admin API and the startup load drive
\* them: accounts made by ProviderAccount::new, no quota tiers.
DefaultAccounts == {account \in MgrNewAccounts : account.quotas = NoQuotas}

NextDefault ==
    \/ \E id \in AccountIds \ DOMAIN accounts, account \in DefaultAccounts :
         add_account(id, account) /\ UNCHANGED auxVars
    \/ \E p \in ProviderIds, id \in AccountIds : set_default(p, id) /\ UNCHANGED auxVars
    \/ \E p \in ProviderIds : get_available_account(p) /\ UNCHANGED auxVars
    \/ \E id \in AccountIds, p \in ProviderIds : repo_create(id, p)
    \/ \E t \in Tasks, p \in ProviderIds, id \in AccountIds : repo_set_default_unset(t, p, id)
    \/ \E t \in Tasks : repo_set_default_set(t)
    \/ \E p \in ProviderIds : repo_get_default(p)

SpecDefault == Init /\ [][NextDefault]_vars

\* ------------------------------------------------------------- SmartRouter

\* usize arithmetic wraps at this modulus (a two-bit usize).
USIZE_MODULUS == 4

\* Cap on the chat attempts made through route_with_fallback.
MaxAttempts == 3
\* Cap on the round-robin selections.
MaxSelections == 6

\* A Provider as the router reads it: id, the quality substrings its
\* lower-cased name contains, pricing, enabled.
Provider(id, quality, input_token_cost, output_token_cost, enabled) ==
    [id |-> id, quality |-> quality,
     pricing |-> [input_token_cost |-> input_token_cost,
                  output_token_cost |-> output_token_cost],
     enabled |-> enabled]

\* The provider lists a router is built from.
RouterProviderLists ==
    { <<>>,
      <<Provider("mistral", {"mistral-large"}, 1, 1, TRUE)>>,
      <<Provider("gemini", {}, 1, 2, TRUE), Provider("openai", {"gpt-4"}, 2, 1, TRUE)>>,
      <<Provider("openai", {"gpt-4"}, 2, 2, TRUE), Provider("gemini", {}, 1, 1, TRUE),
        Provider("mistral", {"mistral-large"}, 1, 1, TRUE)>>,
      <<Provider("openai", {"gpt-3.5"}, 1, 1, FALSE), Provider("gemini", {}, 2, 1, TRUE),
        Provider("mistral", {}, 1, 2, TRUE)>> }

\* The strings a request can carry in its provider field.
RequestProviders == {"OpenAI", "gemini", "cohere"}

\* str::to_lowercase on the ids and request strings of the model.
to_lowercase(str) ==
    CASE str = "OpenAI" -> "openai"
      [] OTHER -> str

\* The errors an adapter's chat can return, and success.
ChatErrors == {"AUTH_FAILED", "TIMEOUT"}
ChatOutcomes == {"Ok"} \cup ChatErrors

\* SmartRouter::new: the adapters of the enabled providers, in order.
SmartRouter_new(providers) == SelectSeq(providers, LAMBDA p : p.enabled)

RECURSIVE Pow10(_)
Pow10(e) == IF e = 0 THEN 1 ELSE 10 * Pow10(e - 1)

\* A health score is the decimal num / 10^exp; 0.5 when nothing is recorded.
DefaultScore == [num |-> 5, exp |-> 1]
ScoreOf(scores, key) == IF key \in DOMAIN scores THEN scores[key] ELSE DefaultScore
\* partial_cmp on two scores: a < b.
ScoreLess(a, b) ==
    LET e == IF a.exp > b.exp THEN a.exp ELSE b.exp
    IN a.num * Pow10(e - a.exp) < b.num * Pow10(e - b.exp)

\* SmartRouter::update_health_score, under health_scores.write():
\* new_score = current * 0.9 + 0.1 * (1.0 or 0.0); scores.insert(provider_id, ..)
update_health_score(scores, provider_id, success) ==
    LET current == ScoreOf(scores, provider_id)
    IN Put(scores, provider_id,
           [num |-> 9 * current.num + (IF success THEN Pow10(current.exp) ELSE 0),
            exp |-> current.exp + 1])

\* Mutant of get_fallback_order: the construction order, whatever the scores.
get_fallback_order_unsorted(scores) == [k \in 1..Len(adapters) |-> k]

\* SmartRouter::get_fallback_order: the adapter positions, stable-sorted by
\* health score descending.
get_fallback_order(scores) ==
    LET n == Len(adapters)
        score(i) == ScoreOf(scores, adapters[i].id)
        before(j, i) == \/ ScoreLess(score(i), score(j))
                        \/ ~ScoreLess(score(j), score(i)) /\ j < i
        rank(i) == Cardinality({j \in 1..n : before(j, i)})
    IN [k \in 1..n |-> CHOOSE i \in 1..n : rank(i) = k - 1]

\* The find of route_to_provider: the first adapter whose id is provider_id
\* or equals it once both are lower-cased.
find_adapter(provider_id) ==
    LET m == {i \in DOMAIN adapters :
                 \/ adapters[i].id = provider_id
                 \/ to_lowercase(adapters[i].id) = to_lowercase(provider_id)}
    IN IF m = {} THEN None ELSE Some(SetMin(m))

\* A ChatRequest as the router reads it.
Request(provider, provider_preference) ==
    [provider |-> provider, provider_preference |-> provider_preference]

\* A call of route_with_fallback in progress: the adapter positions still to
\* walk (order, pos), the key route_to_provider passes to update_health_score,
\* the adapters called so far with what they answered, and the value returned
\* once the call is over.
Walk(request, key, order, result) ==
    [at |-> "walk", request |-> request, key |-> key, order |-> order, pos |-> 1,
     calls |-> <<>>, outcomes |-> <<>>, result |-> result]

Ok(provider_id) == [ok |-> TRUE, provider |-> provider_id]
Err(error) == [ok |-> FALSE, error |-> error]

\* Mutant of route_with_fallback: the provider field of the request is not
\* looked at.
route_with_fallback_start_no_explicit(request, scores) ==
    LET order == get_fallback_order(scores)
    IN Walk(request, None, order,
            IF order = <<>> THEN Some(Err("AllProvidersFailed")) ELSE None)

\* route_with_fallback up to its first chat: the explicit provider is looked
\* up (route_to_provider), or the fallback order is read.
route_with_fallback_start(request, scores) ==
    IF request.provider # None
    THEN LET provider_id == CHOOSE x \in request.provider : TRUE
             found == find_adapter(provider_id)
         IN IF found = None
            THEN Walk(request, Some(provider_id), <<>>, Some(Err("ProviderNotFound")))
            ELSE Walk(request, Some(provider_id), <<CHOOSE i \in found : TRUE>>, None)
    ELSE LET order == get_fallback_order(scores)
         IN Walk(request, None, order,
                 IF order = <<>> THEN Some(Err("AllProvidersFailed")) ELSE None)

\* One adapter.chat of route_with_fallback (or of route_to_provider) with the
\* update_health_score that follows it: the walk and the scores afterwards.
route_with_fallback_chat(w, scores, outcome) ==
    LET i == w.order[w.pos]
        key == IF w.key # None THEN CHOOSE x \in w.key : TRUE ELSE adapters[i].id
        called == [w EXCEPT !.calls = Append(@, adapters[i].id),
                            !.outcomes = Append(@, outcome)]
    IN [scores |-> update_health_score(scores, key, outcome = "Ok"),
        walk |-> IF outcome = "Ok"
                 THEN [called EXCEPT !.result = Some(Ok(adapters[i].id))]
                 ELSE IF w.pos = Len(w.order)
                 THEN [called EXCEPT !.result = Some(Err(outcome))]
                 ELSE [called EXCEPT !.pos = @ + 1]]

\* route_with_fallback as one task runs it, first part.
route_with_fallback_begin(t, request) ==
    /\ rt[t] = Idle
    /\ LET w == route_with_fallback_start(request, health_scores)
       IN IF w.result # None
          THEN /\ ret' = [op |-> "route_with_fallback", walk |-> w]
               /\ UNCHANGED rt
          ELSE /\ rt' = [rt EXCEPT ![t] = w]
               /\ UNCHANGED ret
    /\ UNCHANGED <<accounts, original, now, advances, concVars, repoVars, wfVars, costVars,
                   adapters, round_robin_counter, health_scores, attempts, selections, rr_lock>>

\* route_with_fallback as one task runs it: the next chat and its health
\* update; the call returns after a success or after the last adapter.
route_with_fallback_next(t, outcome) ==
    /\ rt[t].at = "walk"
    /\ attempts < MaxAttempts
    /\ attempts' = attempts + 1
    /\ LET r == route_with_fallback_chat(rt[t], health_scores, outcome)
       IN /\ health_scores' = r.scores
          /\ IF r.walk.result # None
             THEN /\ ret' = [op |-> "route_with_fallback", walk |-> r.walk]
                  /\ rt' = [rt EXCEPT ![t] = Idle]
             ELSE /\ rt' = [rt EXCEPT ![t] = r.walk]
                  /\ UNCHANGED ret
    /\ UNCHANGED <<accounts, original, now, advances, concVars, repoVars, wfVars, costVars,
                   adapters, round_robin_counter, selections, rr_lock>>

\* ProviderPreference
CostOptimal == [kind |-> "CostOptimal"]
LatencyOptimal == [kind |-> "LatencyOptimal"]
QualityTier == [kind |-> "QualityTier"]
LoadBalanced == [kind |-> "LoadBalanced"]
SpecificProvider(idx) == [kind |-> "SpecificProvider", idx |-> idx]

SetMax(S) == CHOOSE x \in S : \A y \in S : x >= y

\* A selection: the position of the adapter (1-based), or an error.
Selected(i) == [ok |-> TRUE, adapter |-> i]

\* Mutant of select_cheapest: the last minimum is kept.
select_cheapest_last_minimum ==
    LET cost(i) == adapters[i].pricing.input_token_cost + adapters[i].pricing.output_token_cost
        m == {i \in DOMAIN adapters : \A j \in DOMAIN adapters : cost(i) <= cost(j)}
    IN IF m = {} THEN Err("NoProvidersAvailable") ELSE Selected(SetMax(m))

\* SmartRouter::select_cheapest: Iterator::min_by keeps the first minimum.
select_cheapest ==
    LET cost(i) == adapters[i].pricing.input_token_cost + adapters[i].pricing.output_token_cost
        m == {i \in DOMAIN adapters : \A j \in DOMAIN adapters : cost(i) <= cost(j)}
    IN IF m = {} THEN Err("NoProvidersAvailable") ELSE Selected(SetMin(m))

\* SmartRouter::select_fastest: Iterator::max_by keeps the last maximum.
select_fastest ==
    LET score(i) == ScoreOf(health_scores, adapters[i].id)
        m == {i \in DOMAIN adapters : \A j \in DOMAIN adapters : ~ScoreLess(score(i), score(j))}
    IN IF m = {} THEN Err("NoProvidersAvailable") ELSE Selected(SetMax(m))

quality_order == <<"gpt-4", "claude-3-opus", "mistral-large", "gpt-3.5">>

\* SmartRouter::select_highest_quality
select_highest_quality ==
    LET has(k) == {i \in DOMAIN adapters : quality_order[k] \in adapters[i].quality}
        hits == {k \in DOMAIN quality_order : has(k) # {}}
    IN IF hits # {} THEN Selected(SetMin(has(SetMin(hits))))
       ELSE IF adapters = <<>> THEN Err("NoProvidersAvailable")
       ELSE Selected(1)

\* SmartRouter::select_by_index
select_by_index(idx) ==
    IF idx + 1 \in DOMAIN adapters THEN Selected(idx + 1)
    ELSE [ok |-> FALSE, error |-> "InvalidProviderIndex", idx |-> idx]

\* Mutant of usize::wrapping_add: the sum saturates.
wrapping_add_saturating(a, b) ==
    IF a + b >= USIZE_MODULUS THEN USIZE_MODULUS - 1 ELSE a + b

\* usize::wrapping_add
wrapping_add(a, b) == (a + b) % USIZE_MODULUS

\* SmartRouter::select_provider for the preferences that touch no counter.
select_provider(preference) ==
    IF adapters = <<>> THEN Err("NoProvidersAvailable")
    ELSE CASE preference.kind = "CostOptimal" -> select_cheapest
           [] preference.kind = "LatencyOptimal" -> select_fastest
           [] preference.kind = "QualityTier" -> select_highest_quality
           [] preference.kind = "SpecificProvider" -> select_by_index(preference.idx)

\* The value route returns after adapter.chat on the selected adapter.
Routed(selected, outcome) ==
    IF ~selected.ok THEN selected
    ELSE IF outcome = "Ok" THEN Ok(adapters[selected.adapter].id)
    ELSE Err(outcome)

\* SmartRouter::route for every preference that reaches no counter (with
\* LoadBalanced, a router without adapters): select_provider, then
\* adapter.chat; no health score is written.
route(request, outcome) ==
    LET preference == IF request.provider_preference = None THEN CostOptimal
                      ELSE CHOOSE x \in request.provider_preference : TRUE
        selected == select_provider(preference)
    IN /\ preference.kind = "LoadBalanced" => adapters = <<>>
       /\ ret' = [op |-> "route", request |-> request, preference |-> preference,
                  selected |-> selected, result |-> Routed(selected, outcome)]
       /\ UNCHANGED <<accounts, original, now, advances, concVars, repoVars, svcVars>>

\* SmartRouter::route with LoadBalanced, up to the read of the counter in
\* select_round_robin: the task holds round_robin_counter.write().
select_round_robin_lock(t) ==
    /\ rt[t] = Idle
    /\ adapters # <<>>
    /\ selections < MaxSelections
    /\ CanWrite(rr_lock)
    /\ rr_lock' = [rr_lock EXCEPT !.writer = Some(t)]
    /\ rt' = [rt EXCEPT ![t] = [at |-> "round_robin", counter |-> round_robin_counter]]
    /\ UNCHANGED <<mgrVars, concVars, repoVars, wfVars, costVars,
                   adapters, round_robin_counter, health_scores, attempts, selections>>

\* SmartRouter::route with LoadBalanced, from idx = *counter % len to the end:
\* the counter is written back, the guard dropped, the adapter called.
select_round_robin_unlock(t, outcome) ==
    /\ rt[t].at = "round_robin"
    /\ LET idx == rt[t].counter % Len(adapters)
       IN ret' = [op |-> "route", request |-> Request(None, Some(LoadBalanced)),
                  preference |-> LoadBalanced, k |-> selections,
                  selected |-> Selected(idx + 1),
                  result |-> Routed(Selected(idx + 1), outcome)]
    /\ round_robin_counter' = wrapping_add(rt[t].counter, 1)
    /\ selections' = selections + 1
    /\ rr_lock' = [rr_lock EXCEPT !.writer = None]
    /\ rt' = [rt EXCEPT ![t] = Idle]
    /\ UNCHANGED <<accounts, original, now, advances, concVars, repoVars, wfVars, costVars,
                   adapters, health_scores, attempts>>

\* The requests sent to the router.
RouterPreferences ==
    {CostOptimal, LatencyOptimal, QualityTier, LoadBalanced}
    \cup {SpecificProvider(i) : i \in 0..3}
RouteRequests ==
    {Request(None, None)} \cup {Request(None, Some(p)) : p \in RouterPreferences}
FallbackRequests ==
    {Request(None, None)} \cup {Request(Some(x), None) : x \in RequestProviders}

\* A router built from one of the provider lists.
InitRouterSpec ==
    /\ InitManager
    /\ InitCost
    /\ InitRouter
    /\ InitWorkflow
    /\ adapters \in {SmartRouter_new(providers) : providers \in RouterProviderLists}

\* The fallback walk of two tasks, with the selection that reads the scores.
NextRouter ==
    \/ \E t \in Tasks, request \in FallbackRequests : route_with_fallback_begin(t, request)
    \/ \E t \in Tasks, outcome \in ChatOutcomes : route_with_fallback_next(t, outcome)
    \/ route(Request(None, Some(LatencyOptimal)), "Ok")

SpecRouter == InitRouterSpec /\ [][NextRouter]_vars

\* Selection by preference, the round-robin counter shared by two tasks.
NextSelect ==
    \/ \E request \in RouteRequests, outcome \in ChatOutcomes : route(request, outcome)
    \/ \E t \in Tasks : select_round_robin_lock(t)
    \/ \E t \in Tasks, outcome \in ChatOutcomes : select_round_robin_unlock(t, outcome)

SpecSelect == InitRouterSpec /\ [][NextSelect]_vars

\* ------------------------------------------------- POST /v1/chat/completions

\* Money in hundredths of the currency unit.
\* Cap on the cost ledger.
MaxEntries == 2
\* The 0.01 the handler passes to can_request.
EstimatedCost == 1
BudgetLimits == {200}
\* The handler's user_id for a request that carries none.
AnonymousUser == "anonymous"
\* The model a response names, and the total_tokens of its usage.
ResponseModel == "gpt-4"
ResponseTokens == 2

\* calculate_cost of an adapter, for a response of one million prompt and one
\* million completion tokens.
calculate_cost(pricing) == 100 * (pricing.input_token_cost + pricing.output_token_cost)

\* Mutant of can_request: a request that would land exactly on the limit is
\* refused.
can_request_refusing_at_limit(user_id, estimated_cost) ==
    IF /\ user_id \in DOMAIN budgets
       /\ budgets[user_id].enforce_limit
       /\ budgets[user_id].spent_this_month + estimated_cost >= budgets[user_id].monthly_limit
    THEN Err("BudgetExceeded")
    ELSE [ok |-> TRUE]

\* CostManager::can_request
can_request(user_id, estimated_cost) ==
    IF /\ user_id \in DOMAIN budgets
       /\ budgets[user_id].enforce_limit
       /\ budgets[user_id].spent_this_month + estimated_cost > budgets[user_id].monthly_limit
    THEN Err("BudgetExceeded")
    ELSE [ok |-> TRUE]

\* The CostEntry record_cost builds; its timestamp is Utc::now().
CostEntry(provider, model, cost, user_id) ==
    [timestamp |-> now, provider |-> provider, model |-> model, cost |-> cost,
     user_id |-> user_id]

\* The budgets after the second half of record_cost: the cost goes to the
\* user's budget if there is one.
budgets_after_cost(b, user_id, cost) ==
    IF user_id \in DOMAIN b
    THEN [b EXCEPT ![user_id].spent_this_month = @ + cost]
    ELSE b

\* CostManager::record_cost run without interruption: the ledger and the
\* budgets afterwards.
record_cost(provider, model, cost, user_id) ==
    [entries |-> Append(entries, CostEntry(provider, model, cost, user_id)),
     budgets |-> budgets_after_cost(budgets, user_id, cost)]

\* CostManager::set_budget
set_budget(entity_id, monthly_limit, enforce) ==
    /\ budgets' = Put(budgets, entity_id,
                      [monthly_limit |-> monthly_limit, spent_this_month |-> 0,
                       enforce_limit |-> enforce, reset_day |-> 1])
    /\ ret' = [op |-> "set_budget"]
    /\ UNCHANGED <<accounts, original, now, advances, concVars, repoVars, wfVars, routerVars,
                   entries, rc>>

\* SmartRouter::route_with_fallback from start to return, the k-th chat
\* ending as outcomes[k].
RECURSIVE RunWalk(_, _, _)
RunWalk(w, scores, outcomes) ==
    IF w.result # None THEN [walk |-> w, scores |-> scores]
    ELSE LET r == route_with_fallback_chat(w, scores, outcomes[Len(w.calls) + 1])
         IN RunWalk(r.walk, r.scores, outcomes)

\* The account the handler takes from the database for provider_id:
\* get_default, else a row of list_by_provider that is enabled and has a key
\* (every row create stores is).
target_accounts(provider_id) ==
    IF \E id \in OfProvider(db, provider_id) : db[id].is_default
    THEN {id \in OfProvider(db, provider_id) : db[id].is_default}
    ELSE OfProvider(db, provider_id)

\* chat_completions: the budget check; for an explicit provider with an
\* account in the database, chat on an adapter made from that account, whose
\* success is recorded and returned and whose failure is only logged; then,
\* unless returned, router.route_with_fallback and record_cost. upstream
\* lists every chat call of the request, in order.
chat_completions(request, account_outcome, outcomes) ==
    LET user_id == AnonymousUser
        allowed == can_request(user_id, EstimatedCost)
        targets == IF request.provider = None THEN {}
                   ELSE target_accounts(CHOOSE x \in request.provider : TRUE)
        Answer(target, upstream, upstream_outcomes, result) ==
            [op |-> "chat_completions", request |-> request, target |-> target,
             upstream |-> upstream, outcomes |-> upstream_outcomes, result |-> result]
    IN /\ attempts < MaxAttempts
       /\ Len(entries) < MaxEntries
       /\ IF ~allowed.ok
          THEN /\ ret' = Answer(None, <<>>, <<>>, allowed)
               /\ UNCHANGED <<health_scores, attempts, entries, budgets>>
          ELSE \E target \in IF targets = {} THEN {None} ELSE {Some(id) : id \in targets} :
                 LET provider_id == CHOOSE x \in request.provider : TRUE
                 IN IF target # None /\ account_outcome = "Ok"
                    THEN LET recorded == record_cost(provider_id, ResponseModel, 0, user_id)
                         IN /\ entries' = recorded.entries
                            /\ budgets' = recorded.budgets
                            /\ ret' = Answer(target, <<provider_id>>, <<"Ok">>, Ok(provider_id))
                            /\ UNCHANGED <<health_scores, attempts>>
                    ELSE LET first == IF target = None THEN <<>> ELSE <<provider_id>>
                             first_outcome == IF target = None THEN <<>> ELSE <<account_outcome>>
                             r == RunWalk(route_with_fallback_start(request, health_scores),
                                          health_scores, outcomes)
                             result == CHOOSE x \in r.walk.result : TRUE
                             recorded ==
                                 record_cost(result.provider, ResponseModel,
                                             calculate_cost(
                                                 adapters[r.walk.order[Len(r.walk.calls)]].pricing),
                                             user_id)
                         IN /\ health_scores' = r.scores
                            /\ attempts' = attempts + Len(r.walk.calls)
                            /\ IF result.ok
                               THEN /\ entries' = recorded.entries
                                    /\ budgets' = recorded.budgets
                               ELSE UNCHANGED <<entries, budgets>>
                            /\ ret' = Answer(target, first \o r.walk.calls,
                                             first_outcome \o r.walk.outcomes, result)
    /\ UNCHANGED <<accounts, original, now, advances, concVars, repoVars, wfVars,
                   adapters, round_robin_counter, rt, selections, rr_lock, rc>>

\* The requests sent to the handler.
ChatProviders == {"openai", "mistral"}
ChatRequests ==
    {Request(None, None)} \cup {Request(Some(x), None) : x \in ChatProviders}

\* The outcomes of the router's chats in one request: the j-th succeeds (none
\* if j is past the last adapter), the others fail with e.
WalkOutcomes ==
    {[k \in 1..2 |-> IF k = j THEN "Ok" ELSE e] : j \in 1..3, e \in ChatErrors}

\* A router built from one of the provider lists of at most two providers.
InitChat ==
    /\ InitManager
    /\ InitCost
    /\ InitRouter
    /\ InitWorkflow
    /\ adapters \in {SmartRouter_new(providers) :
                       providers \in {l \in RouterProviderLists : Len(l) <= 2}}

\* The handler over the accounts table, the router and the cost manager.
NextChat ==
    \/ \E id \in AccountIds : repo_create(id, "openai")
    \/ \E id \in AccountIds : repo_set_default_unset("t1", "openai", id)
    \/ repo_set_default_set("t1")
    \/ \E limit \in BudgetLimits, enforce \in BOOLEAN : set_budget(AnonymousUser, limit, enforce)
    \/ \E request \in ChatRequests, account_outcome \in ChatOutcomes, outcomes \in WalkOutcomes :
         chat_completions(request, account_outcome, outcomes)

SpecChat == InitChat /\ [][NextChat]_vars

\* ------------------------------------------------ gRPC ChatService::complete

\* The orders in which list_by_provider may return the rows in S (ORDER BY
\* priority DESC, is_default DESC leaves rows of equal rank in any order).
RowOrders(S) ==
    {o \in [1..Cardinality(S) -> S] : \A i \in DOMAIN o : \A j \in DOMAIN o : o[i] = o[j] => i = j}

\* ChatServiceImpl::complete: no budget check; for an explicit provider the
\* default account of the database, else each enabled account with a key in
\* turn, is tried on an adapter of its own and the first success is returned;
\* a failure is only logged.  Unless returned, router.route; nothing is
\* recorded anywhere.  upstream lists every chat call of the request.
complete(request, account_outcomes, outcome) ==
    LET rows == IF request.provider = None THEN {}
                ELSE OfProvider(db, CHOOSE x \in request.provider : TRUE)
        defaults == {id \in rows : db[id].is_default}
        orders == IF defaults # {} THEN {<<id>> : id \in defaults} ELSE RowOrders(rows)
    IN /\ \E order \in orders :
            LET provider_id == CHOOSE x \in request.provider : TRUE
                successes == {k \in DOMAIN order : account_outcomes[k] = "Ok"}
                tried == IF successes = {} THEN Len(order) ELSE SetMin(successes)
                account_calls == [k \in 1..tried |-> provider_id]
                account_results == [k \in 1..tried |-> account_outcomes[k]]
                selected == select_provider(CostOptimal)
            IN ret' = IF successes # {}
                      THEN [op |-> "complete", request |-> request,
                            target |-> Some(order[tried]),
                            upstream |-> account_calls, outcomes |-> account_results,
                            result |-> Ok(provider_id)]
                      ELSE [op |-> "complete", request |-> request, target |-> None,
                            upstream |-> IF selected.ok
                                         THEN account_calls \o <<adapters[selected.adapter].id>>
                                         ELSE account_calls,
                            outcomes |-> IF selected.ok
                                         THEN account_results \o <<outcome>>
                                         ELSE account_results,
                            result |-> Routed(selected, outcome)]
       /\ UNCHANGED <<accounts, original, now, advances, concVars, repoVars, svcVars>>

\* The two chat entry points over a server that holds one openai account with
\* a Minute quota of 3 tokens, in the manager and (default or not) in the
\* database, and a router of at most two adapters.
EntryAccount ==
    [provider_id |-> "openai", enabled |-> TRUE, is_default |-> TRUE, priority |-> 1,
     quotas |-> set_quota(NoQuotas, "Minute", 3, None, 0)]
InitEntry ==
    /\ accounts = [id \in {"a1"} |-> EntryAccount]
    /\ original = [p \in {} |-> ""]
    /\ now = 0
    /\ advances = 0
    /\ ret = [op |-> "new"]
    /\ lock = [writer |-> None, readers |-> {}]
    /\ pc = [t \in Tasks |-> Idle]
    /\ debited = [id \in {} |-> 0]
    /\ db \in {[id \in {"a1"} |-> [provider_id |-> "openai", is_default |-> d]] : d \in BOOLEAN}
    /\ sess = [t \in Tasks |-> Idle]
    /\ InitCost
    /\ InitRouter
    /\ InitWorkflow
    /\ adapters \in {SmartRouter_new(providers) :
                       providers \in {l \in RouterProviderLists : Len(l) <= 2}}

NextEntry ==
    \/ \E limit \in BudgetLimits, enforce \in BOOLEAN : set_budget(AnonymousUser, limit, enforce)
    \/ \E request \in ChatRequests, account_outcome \in ChatOutcomes, outcomes \in WalkOutcomes :
         chat_completions(request, account_outcome, outcomes)
    \/ \E request \in ChatRequests, account_outcomes \in WalkOutcomes, outcome \in ChatOutcomes :
         complete(request, account_outcomes, outcome)

SpecEntry == InitEntry /\ [][NextEntry]_vars

\* ------------------------------------------------------------ CostManager

\* Utc::now().day() and the calendar month of a time in minutes, months of
\* thirty days counted from the epoch of the model.
day_of_month(t) == ((t \div 1440) % 30) + 1
month_of(t) == t \div 43200

\* CostManager::record_cost, first statement:
\* self.entries.write().await.push(entry.clone()); the guard is a temporary
\* and is dropped at the end of the statement.
record_cost_push(t, provider, model, cost, user_id) ==
    /\ rc[t] = Idle
    /\ Len(entries) < MaxEntries
    /\ entries' = Append(entries, CostEntry(provider, model, cost, user_id))
    /\ rc' = [rc EXCEPT ![t] = [at |-> "pushed", user_id |-> user_id, cost |-> cost]]
    /\ UNCHANGED <<mgrVars, concVars, repoVars, wfVars, routerVars, budgets>>

\* CostManager::record_cost, the rest: self.budgets.write().await, the
\* budget update if the user has a budget, Ok(entry).
record_cost_budget(t) ==
    /\ rc[t].at = "pushed"
    /\ budgets' = budgets_after_cost(budgets, rc[t].user_id, rc[t].cost)
    /\ rc' = [rc EXCEPT ![t] = Idle]
    /\ ret' = [op |-> "record_cost", user_id |-> rc[t].user_id, cost |-> rc[t].cost]
    /\ UNCHANGED <<accounts, original, now, advances, concVars, repoVars, wfVars, routerVars, entries>>

\* CostManager::can_request as a call of its own: budgets read-locked,
\* nothing written.
CostManager_can_request(user_id, estimated_cost) ==
    /\ ret' = [op |-> "can_request", user_id |-> user_id,
               estimated_cost |-> estimated_cost,
               result |-> can_request(user_id, estimated_cost)]
    /\ UNCHANGED <<accounts, original, now, advances, concVars, repoVars, svcVars>>

\* CostManager::get_budget
get_budget(entity_id) ==
    /\ ret' = [op |-> "get_budget", entity_id |-> entity_id,
               result |-> IF entity_id \in DOMAIN budgets THEN Some(budgets[entity_id])
                          ELSE None]
    /\ UNCHANGED <<accounts, original, now, advances, concVars, repoVars, svcVars>>

\* CostManager::reset_monthly_budgets
reset_monthly_budgets ==
    /\ budgets' = [e \in DOMAIN budgets |->
                      IF budgets[e].reset_day = day_of_month(now)
                      THEN [budgets[e] EXCEPT !.spent_this_month = 0]
                      ELSE budgets[e]]
    /\ ret' = [op |-> "reset_monthly_budgets"]
    /\ UNCHANGED <<accounts, original, now, advances, concVars, repoVars, wfVars, routerVars,
                   entries, rc>>

\* filtered.iter().map(|e| e.cost).sum()
RECURSIVE SumCost(_)
SumCost(seq) == IF seq = <<>> THEN 0 ELSE seq[1].cost + SumCost(Tail(seq))

\* One of the by_provider, by_model, by_user maps of get_summary.
CostBy(filtered, field) ==
    [k \in {filtered[i][field] : i \in DOMAIN filtered} |->
        SumCost(SelectSeq(filtered, LAMBDA e : e[field] = k))]

\* Mutant of the CostSummary of get_summary: the end of the period is
\* excluded.
CostSummary_end_exclusive(start, end) ==
    LET filtered == SelectSeq(entries, LAMBDA e : e.timestamp >= start /\ e.timestamp < end)
    IN [total_cost |-> SumCost(filtered), request_count |-> Len(filtered),
        by_provider |-> CostBy(filtered, "provider"),
        by_model |-> CostBy(filtered, "model"),
        by_user |-> CostBy(filtered, "user_id"),
        period_start |-> start, period_end |-> end]

\* The CostSummary get_summary returns (total_tokens left out: the entries of
\* the model carry no token counts).
CostSummary(start, end) ==
    LET filtered == SelectSeq(entries, LAMBDA e : e.timestamp >= start /\ e.timestamp <= end)
    IN [total_cost |-> SumCost(filtered), request_count |-> Len(filtered),
        by_provider |-> CostBy(filtered, "provider"),
        by_model |-> CostBy(filtered, "model"),
        by_user |-> CostBy(filtered, "user_id"),
        period_start |-> start, period_end |-> end]

\* CostManager::get_summary
get_summary(start, end) ==
    /\ ret' = [op |-> "get_summary", summary |-> CostSummary(start, end)]
    /\ UNCHANGED <<accounts, original, now, advances, concVars, repoVars, svcVars>>

\* The cost manager as one caller drives it: budgets of 10 for u1 (u2 has
\* none), costs of 3 and 8, estimates around the limit, the clock moved by a
\* month.
CostUsers == {"u1", "u2"}
CostLimits == {10}
CostAmounts == {3, 8}
CostEstimates == {2, 3}
CostResponses ==
    {[provider |-> "openai", model |-> "gpt-4"],
     [provider |-> "gemini", model |-> "gpt-4"]}
CostAdvanceSteps == {43200}
CostTimes == {0, 43200}

NextCost ==
    \/ \E limit \in CostLimits, enforce \in BOOLEAN : set_budget("u1", limit, enforce)
    \/ \E r \in CostResponses, cost \in CostAmounts, u \in CostUsers :
         record_cost_push("t1", r.provider, r.model, cost, u)
    \/ record_cost_budget("t1")
    \/ \E u \in CostUsers, estimated_cost \in CostEstimates :
         CostManager_can_request(u, estimated_cost)
    \/ \E start \in CostTimes, end \in CostTimes : get_summary(start, end)
    \/ reset_monthly_budgets
    \/ \E d \in CostAdvanceSteps :
         now + d \in CostTimes /\ Advance(d) /\ UNCHANGED auxVars

SpecCost == Init /\ [][NextCost]_vars

\* Two tasks recording costs of one user while others read the ledger and
\* the budget; the budget was set before the first cost.
LedgerUser == "u1"
InitLedger ==
    /\ InitManager
    /\ InitRouter
    /\ InitWorkflow
    /\ adapters = <<>>
    /\ entries = <<>>
    /\ rc = [t \in Tasks |-> Idle]
    /\ budgets \in {[u \in {LedgerUser} |->
                       [monthly_limit |-> limit, spent_this_month |-> 0,
                        enforce_limit |-> enforce, reset_day |-> 1]] :
                    limit \in CostLimits, enforce \in BOOLEAN}

NextLedger ==
    \/ \E t \in Tasks, cost \in CostAmounts :
         record_cost_push(t, "openai", ResponseModel, cost, LedgerUser)
    \/ \E t \in Tasks : record_cost_budget(t)
    \/ \E estimated_cost \in CostEstimates : CostManager_can_request(LedgerUser, estimated_cost)
    \/ get_budget(LedgerUser)
    \/ get_summary(0, 0)

SpecLedger == InitLedger /\ [][NextLedger]_vars

\* ------------------------------------------ the manager with three accounts

\* Three accounts of one provider, as add_account calls leave them: a1 may be
\* the default and has one token a minute; a2 and a3 are not the default,
\* enabled or not, of either priority, without tiers or with a Minute tier of
\* one or two tokens.
PickProvider == "openai"
PickPriorities == {1, 2}
PickLimits == {1, 2}
PickQuotas ==
    {NoQuotas} \cup {set_quota(NoQuotas, "Minute", l, None, 0) : l \in PickLimits}
PickDefaults ==
    [provider_id : {PickProvider}, enabled : {TRUE}, is_default : BOOLEAN,
     priority : {1}, quotas : {set_quota(NoQuotas, "Minute", 1, None, 0)}]
PickOthers ==
    [provider_id : {PickProvider}, enabled : BOOLEAN, is_default : {FALSE},
     priority : PickPriorities, quotas : PickQuotas]

InitPick ==
    /\ original = [p \in {} |-> ""]
    /\ now = 0
    /\ advances = 0
    /\ ret = [op |-> "new"]
    /\ lock = [writer |-> None, readers |-> {}]
    /\ pc = [t \in Tasks |-> Idle]
    /\ debited = [id \in {} |-> 0]
    /\ db = [id \in {} |-> 0]
    /\ sess = [t \in Tasks |-> Idle]
    /\ InitCost
    /\ InitRouter
    /\ InitWorkflow
    /\ adapters = <<>>
    /\ accounts \in {[id \in {"a1", "a2", "a3"} |->
                        IF id = "a1" THEN d ELSE IF id = "a2" THEN o2 ELSE o3] :
                     d \in PickDefaults, o2 \in PickOthers, o3 \in PickOthers}

NextPick ==
    \/ get_available_account(PickProvider) /\ UNCHANGED auxVars
    \/ \E id \in DOMAIN accounts, tokens \in MgrTokens :
         UnderCap(id, tokens) /\ record_usage(id, tokens, 1) /\ UNCHANGED auxVars
    \/ \E d \in AdvanceSteps : Advance(d) /\ UNCHANGED auxVars

SpecPick == InitPick /\ [][NextPick]_vars

\* ------------------------------------- workflow: DAGValidator, ExecutionEngine

MaxNodes == 2
MaxEdges == 2
MaxExecutions == 1

\* Node ids a workflow is built from, and the ids an edge may name: edges are
\* pushed unchecked, so an end may name no node.
NodeIds == {"node1", "node2"}
EdgeEnds == NodeIds \cup {"nonexistent"}

\* Workflow::add_node: pushes the node, duplicates of an id included.
add_node(id) ==
    /\ Len(workflow.nodes) < MaxNodes
    /\ workflow' = [workflow EXCEPT !.nodes = Append(@, id)]
    /\ UNCHANGED <<mgrVars, concVars, repoVars, routerVars, costVars, executions>>

\* Workflow::add_edge: pushes the edge, whatever its ends name.
add_edge(from, to) ==
    /\ Len(workflow.edges) < MaxEdges
    /\ workflow' = [workflow EXCEPT !.edges = Append(@, [from |-> from, to |-> to])]
    /\ UNCHANGED <<mgrVars, concVars, repoVars, routerVars, costVars, executions>>

\* The keys of the maps built from workflow.nodes.
node_ids(w) == {w.nodes[i] : i \in DOMAIN w.nodes}

\* topological_sort, "Initialize" and "Build graph": an edge counts towards
\* in_degree when its `to` is a key, and is listed in adjacency when its
\* `from` is a key.
in_degree_of(w) ==
    [id \in node_ids(w) |-> Cardinality({i \in DOMAIN w.edges : w.edges[i].to = id})]

adjacency_of(w) ==
    [id \in node_ids(w) |->
        LET out == SelectSeq(w.edges, LAMBDA e : e.from = id)
        IN [k \in DOMAIN out |-> out[k].to]]

\* topological_sort, the inner loop over the neighbors of the popped node.
RECURSIVE kahn_neighbors(_, _, _)
kahn_neighbors(neighbors, in_degree, queue) ==
    IF neighbors = <<>> THEN [in_degree |-> in_degree, queue |-> queue]
    ELSE LET neighbor == Head(neighbors)
         IN IF neighbor \in DOMAIN in_degree
            THEN LET count == in_degree[neighbor] - 1
                 IN kahn_neighbors(Tail(neighbors),
                                   [in_degree EXCEPT ![neighbor] = count],
                                   IF count = 0 THEN Append(queue, neighbor) ELSE queue)
            ELSE kahn_neighbors(Tail(neighbors), in_degree, queue)

\* topological_sort, the while loop: pop_front, push to result, relax.
RECURSIVE kahn(_, _, _, _)
kahn(queue, in_degree, adjacency, result) ==
    IF queue = <<>> THEN result
    ELSE LET node_id == Head(queue)
             relaxed == kahn_neighbors(adjacency[node_id], in_degree, Tail(queue))
         IN kahn(relaxed.queue, relaxed.in_degree, adjacency, Append(result, node_id))

\* The orders in which iterating a HashMap may yield the keys of S.
IterationOrders(S) == RowOrders(S)

\* The keys topological_sort starts its queue from.
entry_keys(w) == {id \in node_ids(w) : in_degree_of(w)[id] = 0}

\* DAGValidator::topological_sort, the queue seeded in the order the HashMap
\* yielded the keys of in-degree 0.
topological_sort(w, queue) ==
    LET result == kahn(queue, in_degree_of(w), adjacency_of(w), <<>>)
    IN IF Len(result) = Len(w.nodes)
       THEN [ok |-> TRUE, order |-> result]
       ELSE [ok |-> FALSE, error |-> "Cycle detected in workflow"]

\* DAGValidator::dfs_cycle: dfs_cycle_edges is its loop over workflow.edges
\* from position i on.
RECURSIVE dfs_cycle(_, _, _, _)
RECURSIVE dfs_cycle_edges(_, _, _, _, _)
dfs_cycle(node_id, w, visited, rec_stack) ==
    dfs_cycle_edges(node_id, w, 1, visited \cup {node_id}, rec_stack \cup {node_id})

dfs_cycle_edges(node_id, w, i, visited, rec_stack) ==
    IF i > Len(w.edges)
    THEN [cycle |-> None, visited |-> visited, rec_stack |-> rec_stack \ {node_id}]
    ELSE LET edge == w.edges[i]
         IN IF edge.from # node_id
            THEN dfs_cycle_edges(node_id, w, i + 1, visited, rec_stack)
            ELSE IF edge.to \notin visited
            THEN LET r == dfs_cycle(edge.to, w, visited, rec_stack)
                 IN IF r.cycle # None THEN r
                    ELSE dfs_cycle_edges(node_id, w, i + 1, r.visited, r.rec_stack)
            ELSE IF edge.to \in rec_stack
            THEN [cycle |-> Some(edge.to), visited |-> visited, rec_stack |-> rec_stack]
            ELSE dfs_cycle_edges(node_id, w, i + 1, visited, rec_stack)

\* DAGValidator::find_cycle, from node position i on.
RECURSIVE find_cycle_from(_, _, _, _)
find_cycle_from(w, i, visited, rec_stack) ==
    IF i > Len(w.nodes) THEN None
    ELSE IF w.nodes[i] \in visited THEN find_cycle_from(w, i + 1, visited, rec_stack)
    ELSE LET r == dfs_cycle(w.nodes[i], w, visited, rec_stack)
         IN IF r.cycle # None THEN r.cycle
            ELSE find_cycle_from(w, i + 1, r.visited, r.rec_stack)

find_cycle(w) == find_cycle_from(w, 1, {}, {})

\* DAGValidator::validate_edges: the edges one of whose ends names no node.
validate_edges(w) ==
    SelectSeq(w.edges, LAMBDA e : e.from \notin node_ids(w) \/ e.to \notin node_ids(w))

\* DAGValidator::validate, its errors by kind; warnings leave `valid` alone.
validate(w) ==
    IF w.nodes = <<>> THEN [valid |-> TRUE, errors |-> <<>>]
    ELSE LET cycle == IF find_cycle(w) # None THEN <<"cycle">> ELSE <<>>
             invalid == [k \in DOMAIN validate_edges(w) |-> "invalid edge"]
             errors == cycle \o invalid
         IN [valid |-> errors = <<>>, errors |-> errors]

\* A call of DAGValidator::topological_sort on the workflow.
topological_sort_call ==
    /\ \E queue \in IterationOrders(entry_keys(workflow)) :
          ret' = [op |-> "topological_sort", workflow |-> workflow,
                  result |-> topological_sort(workflow, queue)]
    /\ UNCHANGED <<accounts, original, now, advances, concVars, repoVars, svcVars>>

\* A call of DAGValidator::validate on the workflow.
validate_call ==
    /\ ret' = [op |-> "validate", workflow |-> workflow, result |-> validate(workflow)]
    /\ UNCHANGED <<accounts, original, now, advances, concVars, repoVars, svcVars>>

\* The nodes execute runs in turn: up to and including the first that fails.
RECURSIVE nodes_run(_, _)
nodes_run(order, failing) ==
    IF order = <<>> THEN <<>>
    ELSE IF Head(order) \in failing THEN <<Head(order)>>
    ELSE <<Head(order)>> \o nodes_run(Tail(order), failing)

\* ExecutionEngine::execute: a workflow that does not validate is refused
\* before anything is saved; otherwise the execution is saved, the nodes run
\* in topological order until one fails, and the execution is saved again with
\* the outcome. `failing` are the node ids whose execute_node returns Err.
execute(queue, failing) ==
    /\ LET validation == validate(workflow)
           sorted == topological_sort(workflow, queue)
           ran == nodes_run(sorted.order, failing)
           failed == ran # <<>> /\ ran[Len(ran)] \in failing
           completed == IF failed THEN SubSeq(ran, 1, Len(ran) - 1) ELSE ran
       IN IF ~validation.valid
          THEN /\ ret' = [op |-> "execute", workflow |-> workflow, ran |-> <<>>,
                          result |-> "Validation"]
               /\ UNCHANGED executions
          ELSE /\ Len(executions) < MaxExecutions
               /\ IF ~sorted.ok
                  THEN /\ executions' = Append(executions,
                               [status |-> "Running", nodes_execution |-> {}])
                       /\ ret' = [op |-> "execute", workflow |-> workflow,
                                  ran |-> <<>>, result |-> "Validation"]
                  ELSE /\ executions' = Append(executions,
                               [status |-> IF failed THEN "Failed" ELSE "Completed",
                                nodes_execution |->
                                    {completed[k] : k \in DOMAIN completed}])
                       /\ ret' = [op |-> "execute", workflow |-> workflow,
                                  ran |-> ran, result |-> "Ok"]
    /\ UNCHANGED <<accounts, original, now, advances, concVars, repoVars,
                   routerVars, costVars, workflow>>

NextDag ==
    \/ \E id \in NodeIds : add_node(id)
    \/ \E from \in EdgeEnds : \E to \in EdgeEnds : add_edge(from, to)
    \/ topological_sort_call
    \/ validate_call
    \/ \E queue \in IterationOrders(entry_keys(workflow)) :
          \E failing \in SUBSET NodeIds : execute(queue, failing)

SpecDag == Init /\ [][NextDag]_vars

\* ------------------------------------------------------------------ claims

Defaults(accts, provider_id) ==
    {id \in OfProvider(accts, provider_id) : accts[id].is_default}

\* Enabled accounts of the provider that have quota available now.
Usable(provider_id) ==
    {id \in OfProvider(accounts, provider_id) :
        accounts[id].enabled /\ ProviderAccount_has_quota_available(accounts[id], now)}

\* C1: every provider_id has at most one account with is_default = true,
\* whatever add_account, update_account, set_default and delete_account calls
\* came before.
C1_AtMostOneDefault ==
    \A p \in ProviderIds : Cardinality(Defaults(accounts, p)) <= 1

\* C2: when the one account of P flagged is_default is enabled and has quota
\* available, pick(P) returns it; when it is exhausted and another enabled
\* account of P has quota, pick(P) returns such an other account.
C2_PickPrefersCurrentDefault ==
    \A p \in ProviderIds : \A d \in Defaults(accounts, p) :
        (Defaults(accounts, p) = {d} /\ accounts[d].enabled) =>
            \A o \in pick_outcomes(p) :
                IF d \in Usable(p) THEN o.result = d
                ELSE (Usable(p) # {} => o.result \in Usable(p))

C4_NoneIffNoUsableAccount ==
    \A p \in ProviderIds : \A o \in pick_outcomes(p) :
        (o.result = "None") <=> (Usable(p) = {})

\* C5 as stated: deleting the default account of a provider promotes no other
\* account, and the next pick for that provider returns None.
C5_DeleteDefaultThenPickNone ==
    [][ /\ \A id \in AccountIds : (ret'.op = "delete" /\ delete_account(id)) =>
              \A j \in DOMAIN accounts \ {id} : accounts'[j] = accounts[j]
        /\ (ret.op = "delete" /\ ret.result /\ ret.was_default) =>
              \A o \in pick_outcomes(ret.provider_id) : o.result = "None" ]_vars

\* C5 as amended: deleting the default account of a provider promotes no other
\* account (every other stored account is left as it was), and the next pick
\* for that provider returns None only when no remaining enabled account of the
\* provider has quota available; otherwise it returns a stored account.
C5_DeleteDefaultNoPromotion ==
    [][ /\ \A id \in AccountIds : (ret'.op = "delete" /\ delete_account(id)) =>
              /\ DOMAIN accounts' = DOMAIN accounts \ {id}
              /\ \A j \in DOMAIN accounts \ {id} : accounts'[j] = accounts[j]
        /\ (ret.op = "delete" /\ ret.result /\ ret.was_default) =>
              \A o \in pick_outcomes(ret.provider_id) :
                  /\ Usable(ret.provider_id) # {} => o.result \in DOMAIN accounts
                  /\ o.result = "None" => Usable(ret.provider_id) = {} ]_vars

\* C5 witness: the default of a provider was just deleted, no account of the
\* provider is flagged default, and an enabled account with quota remains.
C5_Witness ==
    /\ ret.op = "delete" /\ ret.result /\ ret.was_default
    /\ Defaults(accounts, ret.provider_id) = {}
    /\ Usable(ret.provider_id) # {}

\* C6: add(account) stores the account with is_default = true exactly when no
\* account with the same provider_id was stored before the call.
C6_AddDefaultIffFirst ==
    [][ \A id \in AccountIds : \A account \in MgrAccounts :
           add_account(id, account) =>
              (accounts'[id].is_default <=>
                 ~\E a \in DOMAIN accounts : accounts[a].provider_id = account.provider_id) ]_vars

\* C7: add(account) with an id already stored fails with a duplicate-id error
\* and leaves the stored account unchanged; any other add succeeds.
C7_AddFailsOnDuplicateId ==
    [][ \A id \in AccountIds : \A account \in MgrAccounts :
           add_account(id, account) =>
              IF id \in DOMAIN accounts
              THEN ret'.result = "DuplicateId" /\ accounts' = accounts
              ELSE ret'.result = "Ok" ]_vars

\* C9: record_usage(a, t, r) debits every quota tier of account a.  A tier
\* whose window has not expired (now is not past period_start + duration) gets
\* tokens_used + t and requests_used + r and keeps its period_start, whatever
\* its limit; a tier whose window has expired ends with tokens_used = t,
\* requests_used = r and period_start = now.  No tier is added or removed.
C9_RecordUsageDebitsEveryTier ==
    [][ \A t \in QuotaTokens : \A r \in QuotaRequests :
           (record_usage("a1", t, r) /\ "a1" \in DOMAIN accounts) =>
              /\ DOMAIN accounts'["a1"].quotas = DOMAIN accounts["a1"].quotas
              /\ \A p \in DOMAIN accounts["a1"].quotas :
                    LET old == accounts["a1"].quotas[p]
                        new == accounts'["a1"].quotas[p]
                    IN IF now > old.period_start + duration(p)
                       THEN /\ new.tokens_used = t
                            /\ new.requests_used = r
                            /\ new.period_start = now
                       ELSE /\ new.tokens_used = old.tokens_used + t
                            /\ new.requests_used = old.requests_used + r
                            /\ new.period_start = old.period_start ]_vars

\* C9 witness: after a record_usage, one tier of the account holds a debit
\* accumulated above its token_limit and another was reset and debited afresh.
C9_Witness ==
    /\ ret.op = "record_usage"
    /\ "a1" \in DOMAIN accounts
    /\ DOMAIN accounts["a1"].quotas = {"Minute", "Hour"}
    /\ accounts["a1"].quotas["Hour"].tokens_used > accounts["a1"].quotas["Hour"].token_limit
    /\ accounts["a1"].quotas["Hour"].period_start < now
    /\ accounts["a1"].quotas["Minute"].period_start = now
    /\ accounts["a1"].quotas["Minute"].tokens_used \in QuotaTokens
    /\ accounts["a1"].quotas["Minute"].tokens_used < accounts["a1"].quotas["Hour"].tokens_used

\* C10: under any interleaving of record_usage calls on one account with
\* pick, update and status reads of two tasks, no debit is lost: every tier's
\* tokens_used is the sum of the tokens of the record_usage calls on its
\* account that completed in the tier's current window.
C10_NoLostDebit ==
    /\ DOMAIN debited = DOMAIN accounts
    /\ \A id \in DOMAIN accounts :
          /\ DOMAIN debited[id] = DOMAIN accounts[id].quotas
          /\ \A p \in DOMAIN accounts[id].quotas :
                accounts[id].quotas[p].tokens_used = debited[id][p]

\* C10 witness: a tier holds the debits of more than one completed
\* record_usage call (3 tokens, each call debits at most 2), the last call
\* to complete was a record_usage, and a task is reading statuses.
C10_Witness ==
    \E t1 \in Tasks, t2 \in Tasks, id \in DOMAIN accounts :
        /\ pc[t1].at = "statuses"
        /\ t2 # t1 /\ pc[t2] = Idle
        /\ ret.op = "record_usage"
        /\ "Minute" \in DOMAIN accounts[id].quotas
        /\ accounts[id].quotas["Minute"].tokens_used = 3
        /\ debited[id]["Minute"] = 3

\* C8: set_default(P, A) is atomic and exclusive.  After the manager's
\* set_default returns, and after the repository's set_default returns, A is
\* the one default account of P and the accounts of other providers are as
\* they were, also when A does not exist or is of another provider; and while
\* a repository set_default on P is between its two statements, P has exactly
\* one default for anyone who looks.
C8_SetDefaultAtomicExclusive ==
    [][ /\ \A p \in ProviderIds : \A a \in AccountIds :
              set_default(p, a) =>
                 /\ Defaults(accounts', p) = {a}
                 /\ \A j \in DOMAIN accounts :
                       accounts[j].provider_id # p => accounts'[j] = accounts[j]
        /\ \A t \in Tasks :
              repo_set_default_set(t) =>
                 /\ Defaults(db', sess[t].provider_id) = {sess[t].account_id}
                 /\ \A j \in DOMAIN db :
                       db[j].provider_id # sess[t].provider_id => db'[j] = db[j]
        /\ \A t \in Tasks :
              sess'[t].at = "unset" =>
                 Cardinality(Defaults(db', sess'[t].provider_id)) = 1 ]_vars

\* C11: QuotaTier::has_quota_available returns true exactly when
\* now >= period_start + duration, or tokens_used < token_limit and the
\* request limit is absent or not reached; so a tier exhausted exactly at
\* now = period_start + duration counts as available.
C11_HasQuotaAvailableFromBoundary ==
    \A id \in DOMAIN accounts : \A p \in DOMAIN accounts[id].quotas :
        LET tier == accounts[id].quotas[p]
        IN QuotaTier_has_quota_available(tier, now) <=>
              \/ now >= tier.period_start + duration(tier.period)
              \/ /\ tier.tokens_used < tier.token_limit
                 /\ \A l \in tier.request_limit : tier.requests_used < l

\* C12: quota reset is lazy and happens on every read: a pick or a
\* record_usage that observes an expired tier of an account leaves the stored
\* tier with tokens_used = 0 before any debit of the call, and
\* period_start = now; pick observes the tiers of every enabled account of
\* the provider.
C12_LazyResetOnEveryRead ==
    [][ /\ \A p \in ProviderIds :
              get_available_account(p) =>
                 \A id \in OfProvider(accounts, p) :
                    accounts[id].enabled =>
                       \A q \in DOMAIN accounts[id].quotas :
                          is_period_expired(accounts[id].quotas[q], now) =>
                             /\ accounts'[id].quotas[q].tokens_used = 0
                             /\ accounts'[id].quotas[q].requests_used = 0
                             /\ accounts'[id].quotas[q].period_start = now
        /\ \A id \in DOMAIN accounts : \A tokens \in MgrTokens :
              record_usage(id, tokens, 1) =>
                 \A q \in DOMAIN accounts[id].quotas :
                    is_period_expired(accounts[id].quotas[q], now) =>
                       /\ accounts'[id].quotas[q].tokens_used = tokens
                       /\ accounts'[id].quotas[q].period_start = now ]_vars

\* A tier has quota once its lazy reset is applied: its counters, taken as
\* zero when the window has expired, are below its limits.
TierHasQuota(tier, t) ==
    LET expired == t > tier.period_start + duration(tier.period)
        tokens == IF expired THEN 0 ELSE tier.tokens_used
        requests == IF expired THEN 0 ELSE tier.requests_used
    IN /\ tokens < tier.token_limit
       /\ \A l \in tier.request_limit : requests < l

\* C13: for an account with several quota tiers has_quota is true iff every
\* tier has quota (true without tiers); blocking_tier returns None iff
\* has_quota is true, whichever of the two is called first, and otherwise
\* returns the period of a tier of the account that is exhausted.
C13_HasQuotaAllTiersBlockingTier ==
    \A id \in DOMAIN accounts :
        LET acct == accounts[id]
            all == \A p \in DOMAIN acct.quotas : TierHasQuota(acct.quotas[p], now)
        IN /\ \A h \in ProviderAccount_has_quota(acct, now) :
                 /\ h.ok <=> all
                 /\ \A b \in blocking_tier([acct EXCEPT !.quotas = h.quotas], now) :
                       b.result = None <=> h.ok
           /\ \A b \in blocking_tier(acct, now) :
                 /\ b.result = None <=> all
                 /\ \A p \in b.result :
                       /\ p \in DOMAIN acct.quotas
                       /\ ~TierHasQuota(acct.quotas[p], now)
           /\ \A st \in StatusOf(acct, now) :
                 /\ st.has_quota <=> all
                 /\ st.blocking_tier = None <=> st.has_quota

\* C13 witness: statuses were read for an account with a Minute and an Hour
\* tier after a debit that used up the Minute tier only: has_quota is false,
\* blocking_tier is Minute, the Hour tier still has quota.
C13_Witness ==
    /\ ret.op = "statuses"
    /\ "a1" \in DOMAIN ret.statuses /\ "a1" \in DOMAIN accounts
    /\ DOMAIN accounts["a1"].quotas = {"Minute", "Hour"}
    /\ accounts["a1"].quotas["Minute"].tokens_used = accounts["a1"].quotas["Minute"].token_limit
    /\ accounts["a1"].quotas["Hour"].tokens_used = accounts["a1"].quotas["Minute"].tokens_used
    /\ accounts["a1"].quotas["Hour"].tokens_used < accounts["a1"].quotas["Hour"].token_limit
    /\ ~is_period_expired(accounts["a1"].quotas["Minute"], now)
    /\ ~ret.statuses["a1"].has_quota
    /\ ret.statuses["a1"].blocking_tier = Some("Minute")

\* The walks that are over (in ret) or in progress (in rt).
WalksSeen ==
    (IF ret.op = "route_with_fallback" THEN {ret.walk} ELSE {})
    \cup {rt[t] : t \in {u \in Tasks : rt[u].at = "walk"}}

\* C14: route_with_fallback on a request whose provider field names x calls
\* chat on the adapter registered for x (ids compared as route_to_provider
\* compares them) and on no other, at most once; the caller gets that call's
\* success, or exactly its error, or ProviderNotFound without any call when x
\* is not registered; never AllProvidersFailed.
C14_ExplicitProviderOnly ==
    \A w \in WalksSeen :
        w.request.provider # None =>
            LET x == CHOOSE v \in w.request.provider : TRUE
                registered == \E i \in DOMAIN adapters :
                                 to_lowercase(adapters[i].id) = to_lowercase(x)
            IN /\ Len(w.calls) <= 1
               /\ \A k \in DOMAIN w.calls : to_lowercase(w.calls[k]) = to_lowercase(x)
               /\ w.result # None =>
                     LET result == CHOOSE r \in w.result : TRUE
                     IN /\ registered <=> Len(w.calls) = 1
                        /\ ~registered => result = Err("ProviderNotFound")
                        /\ registered =>
                              result = IF w.outcomes[1] = "Ok" THEN Ok(w.calls[1])
                                       ELSE Err(w.outcomes[1])
                        /\ ~result.ok => result.error # "AllProvidersFailed"

\* C14 witness: a request naming a provider of a router with several
\* adapters ended with the error of its one chat call.
C14_Witness ==
    /\ ret.op = "route_with_fallback"
    /\ ret.walk.request.provider = Some("OpenAI")
    /\ Len(adapters) >= 2
    /\ ret.walk.calls = <<"openai">>
    /\ ret.walk.result = Some(Err("AUTH_FAILED"))

\* order lists every adapter once, by health score descending as scores has
\* them, adapters of equal score in construction order.
IsFallbackOrder(order, scores) ==
    LET score(i) == ScoreOf(scores, adapters[i].id)
    IN /\ Len(order) = Len(adapters)
       /\ {order[k] : k \in DOMAIN order} = DOMAIN adapters
       /\ \A k \in DOMAIN order : \A l \in DOMAIN order :
             k < l => /\ ~ScoreLess(score(order[k]), score(order[l]))
                      /\ ~ScoreLess(score(order[l]), score(order[k])) => order[k] < order[l]

\* C16: without an explicit provider route_with_fallback walks the adapters in
\* the order of their health scores, descending, as read when the walk starts
\* (equal scores keep construction order), one at a time and each at most
\* once; it goes on after any failure, returns the first success without
\* calling a later adapter, and returns an error only after every adapter was
\* tried and failed: the last underlying error, or AllProvidersFailed when
\* there is no adapter.
C16_FallbackWalk ==
    [][ /\ \A t \in Tasks :
              (rt[t] = Idle /\ rt'[t].at = "walk" /\ rt'[t].key = None) =>
                 IsFallbackOrder(rt'[t].order, health_scores)
        /\ \A w \in WalksSeen' :
              w.key = None =>
                 /\ Len(w.calls) = Len(w.outcomes)
                 /\ Len(w.calls) <= Len(w.order)
                 /\ \A k \in DOMAIN w.calls : w.calls[k] = adapters[w.order[k]].id
                 /\ \A k \in DOMAIN w.order : \A l \in DOMAIN w.order :
                       w.order[k] = w.order[l] => k = l
                 /\ \A k \in 1..(Len(w.outcomes) - 1) : w.outcomes[k] \in ChatErrors
                 /\ IF w.result = None
                    THEN /\ w.pos = Len(w.calls) + 1
                         /\ w.pos <= Len(w.order)
                         /\ \A k \in DOMAIN w.outcomes : w.outcomes[k] \in ChatErrors
                    ELSE LET result == CHOOSE r \in w.result : TRUE
                             n == Len(w.calls)
                         IN IF adapters = <<>>
                            THEN result = Err("AllProvidersFailed") /\ n = 0
                            ELSE /\ n >= 1
                                 /\ result.ok <=> w.outcomes[n] = "Ok"
                                 /\ result.ok => result.provider = w.calls[n]
                                 /\ ~result.ok => /\ n = Len(adapters)
                                                  /\ result = Err(w.outcomes[n]) ]_vars

\* C16 witness: a walk over three adapters that, because of the scores, did
\* not start at the first of them went past one failure to a success and left
\* the third adapter alone.
C16_Witness ==
    /\ ret.op = "route_with_fallback"
    /\ ret.walk.key = None
    /\ Len(adapters) = 3
    /\ Len(ret.walk.calls) = 2
    /\ ret.walk.calls[1] # adapters[1].id
    /\ ret.walk.outcomes[1] \in ChatErrors
    /\ ret.walk.result = Some(Ok(ret.walk.calls[2]))

\* C17: every chat attempt of the router updates the health score of exactly
\* the attempted provider, new = 0.9 * old + 0.1 * (1 on success, 0 on
\* failure), old being 0.5 when nothing is recorded; every stored score stays
\* within [0, 1]; the scores of providers not attempted are unchanged.
C17_HealthOfAttemptedProvider ==
    [][ \A t \in Tasks : \A outcome \in ChatOutcomes :
           route_with_fallback_next(t, outcome) =>
              LET attempted == adapters[rt[t].order[rt[t].pos]].id
                  old == ScoreOf(health_scores, attempted)
              IN /\ DOMAIN health_scores' = DOMAIN health_scores \cup {attempted}
                 /\ health_scores'[attempted] =
                       [num |-> 9 * old.num + (IF outcome = "Ok" THEN Pow10(old.exp) ELSE 0),
                        exp |-> old.exp + 1]
                 /\ \A k \in DOMAIN health_scores \ {attempted} :
                       health_scores'[k] = health_scores[k]
                 /\ \A k \in DOMAIN health_scores' :
                       /\ 0 <= health_scores'[k].num
                       /\ health_scores'[k].num <= Pow10(health_scores'[k].exp) ]_vars

\* C18: route with CostOptimal, or with no preference, selects an adapter
\* whose input plus output token cost is the minimum over the adapters, among
\* those of minimal cost the first in construction order, and never the
\* adapter of a disabled provider; a router without adapters answers
\* NoProvidersAvailable.
C18_CostOptimalFirstCheapest ==
    (ret.op = "route" /\ ret.request.provider_preference \in {None, Some(CostOptimal)}) =>
        LET cost(i) == adapters[i].pricing.input_token_cost
                       + adapters[i].pricing.output_token_cost
        IN /\ ret.preference = CostOptimal
           /\ IF adapters = <<>> THEN ret.selected = Err("NoProvidersAvailable")
              ELSE /\ ret.selected.ok
                   /\ ret.selected.adapter \in DOMAIN adapters
                   /\ adapters[ret.selected.adapter].enabled
                   /\ \A j \in DOMAIN adapters :
                         /\ cost(ret.selected.adapter) <= cost(j)
                         /\ cost(j) = cost(ret.selected.adapter) => ret.selected.adapter <= j

\* C18 witness: no preference given, two adapters tie for the minimum and the
\* earlier of them, which is not the first adapter, was selected.
C18_Witness ==
    /\ ret.op = "route"
    /\ ret.request.provider_preference = None
    /\ Len(adapters) = 3
    /\ ret.selected = Selected(2)
    /\ adapters[2].pricing.input_token_cost + adapters[2].pricing.output_token_cost
       = adapters[3].pricing.input_token_cost + adapters[3].pricing.output_token_cost

\* C19 as stated: with LoadBalanced and n >= 1 adapters the k-th selection
\* (k = 0, 1, 2, ...) returns adapter k mod n, across the wrap of the counter
\* too.
C19_KthSelectionIsKModN ==
    (ret.op = "route" /\ ret.preference = LoadBalanced /\ adapters # <<>>) =>
        ret.selected = Selected((ret.k % Len(adapters)) + 1)

\* C19: with LoadBalanced and n >= 1 adapters the k-th selection returns
\* adapter (k mod 2^w) mod n, w the width of usize, whichever tasks issue the
\* selections: the counter is read and advanced under its write lock, so it
\* always equals the number of selections made modulo 2^w and at most one
\* task holds a value read from it; it wraps to 0 and never overflows.
C19_RoundRobinModuloWrap ==
    /\ round_robin_counter = selections % USIZE_MODULUS
    /\ \A t \in Tasks : \A u \in Tasks :
          (rt[t].at = "round_robin" /\ rt[u].at = "round_robin") =>
             t = u /\ rt[t].counter = round_robin_counter
    /\ (ret.op = "route" /\ ret.preference = LoadBalanced /\ adapters # <<>>) =>
          ret.selected = Selected(((ret.k % USIZE_MODULUS) % Len(adapters)) + 1)

\* C19 witness: a selection made after the counter wrapped, over a number of
\* adapters that does not divide 2^w, while the other task waits its turn.
C19_Witness ==
    /\ ret.op = "route"
    /\ ret.preference = LoadBalanced
    /\ Len(adapters) = 3
    /\ ret.k >= USIZE_MODULUS
    /\ \E t \in Tasks : rt[t].at = "round_robin"

\* C20: route with SpecificProvider(i) selects the adapter at position i of
\* the construction order when i is within bounds, and fails with
\* InvalidProviderIndex(i) otherwise, the empty adapter list included.
C20_SpecificProviderIndex ==
    (ret.op = "route" /\ ret.preference.kind = "SpecificProvider") =>
        IF ret.preference.idx < Len(adapters)
        THEN ret.selected = Selected(ret.preference.idx + 1)
        ELSE ret.selected = [ok |-> FALSE, error |-> "InvalidProviderIndex",
                             idx |-> ret.preference.idx]

\* C15: a chat_completions request with an explicit provider makes at most
\* one upstream chat call; when that call fails the caller gets that error,
\* no second chat is attempted through the router or another account, and
\* the cost ledger and the budgets are as before.
C15_ExplicitProviderOneUpstreamCall ==
    [][ \A request \in ChatRequests : \A account_outcome \in ChatOutcomes :
        \A outcomes \in WalkOutcomes :
           (chat_completions(request, account_outcome, outcomes) /\ request.provider # None) =>
              /\ Len(ret'.upstream) <= 1
              /\ (Len(ret'.upstream) >= 1 /\ ret'.outcomes[1] # "Ok") =>
                    /\ ret'.result = Err(ret'.outcomes[1])
                    /\ entries' = entries
                    /\ budgets' = budgets ]_vars

\* C21: can_request(user, estimated_cost) allows the request when the user
\* has no budget or the budget is not enforced, and otherwise allows it iff
\* spent_this_month + estimated_cost <= monthly_limit; a denial is
\* BudgetExceeded for that user; the budgets and the ledger are not modified.
C21_CanRequestWithinLimit ==
    [][ \A u \in CostUsers : \A estimated_cost \in CostEstimates :
           CostManager_can_request(u, estimated_cost) =>
              LET allowed == \/ u \notin DOMAIN budgets
                             \/ ~budgets[u].enforce_limit
                             \/ budgets[u].spent_this_month + estimated_cost
                                   <= budgets[u].monthly_limit
              IN /\ ret'.user_id = u
                 /\ allowed => ret'.result = [ok |-> TRUE]
                 /\ ~allowed => ret'.result = Err("BudgetExceeded")
                 /\ budgets' = budgets
                 /\ entries' = entries ]_vars

\* C21 witness: limit 10 enforced, 8 recorded, can_request(3) denied.
C21_Witness ==
    /\ ret.op = "can_request"
    /\ ret.user_id = "u1"
    /\ ret.estimated_cost = 3
    /\ ret.result = Err("BudgetExceeded")
    /\ "u1" \in DOMAIN budgets
    /\ budgets["u1"].monthly_limit = 10
    /\ budgets["u1"].enforce_limit
    /\ budgets["u1"].spent_this_month = 8
    /\ Len(entries) = 1

\* C23: the ledger never holds an entry whose cost the user's
\* spent_this_month does not include yet: whatever a reader of the ledger and
\* of the budget sees, the spend of the user is the sum of the user's entries
\* (the budget having been set before the first of them).
C23_LedgerAndBudgetInOneSection ==
    budgets[LedgerUser].spent_this_month = SumCost(entries)

\* C24: the first record_cost of a user on or after the budget's reset day in
\* a new calendar month sets spent_this_month to 0 before adding the cost;
\* every other record_cost adds the cost to spent_this_month as it stands.
C24_LazyMonthlyReset ==
    [][ (record_cost_budget("t1") /\ rc["t1"].user_id \in DOMAIN budgets) =>
           LET u == rc["t1"].user_id
               n == Len(entries)
               earlier == {i \in 1..(n - 1) : entries[i].user_id = u}
               first_in_new_month ==
                   /\ day_of_month(entries[n].timestamp) >= budgets[u].reset_day
                   /\ earlier # {}
                   /\ \A i \in earlier :
                         month_of(entries[i].timestamp) < month_of(entries[n].timestamp)
           IN budgets'[u].spent_this_month =
                 IF first_in_new_month THEN rc["t1"].cost
                 ELSE budgets[u].spent_this_month + rc["t1"].cost ]_vars

\* Sum of the costs of the ledger entries at the positions in I.
RECURSIVE LedgerSum(_)
LedgerSum(I) ==
    IF I = {} THEN 0
    ELSE LET i == CHOOSE x \in I : TRUE IN entries[i].cost + LedgerSum(I \ {i})

\* Sum of the values of a map over the keys in K.
RECURSIVE MapSum(_, _)
MapSum(m, K) ==
    IF K = {} THEN 0
    ELSE LET k == CHOOSE x \in K : TRUE IN m[k] + MapSum(m, K \ {k})

\* C25: get_summary(start, end) returns as total_cost the sum of cost over
\* exactly the ledger entries with start <= timestamp <= end, as
\* request_count their number, and breakdowns by provider, model and user
\* that each split those entries by key and sum to total_cost.
C25_SummaryOverInclusivePeriod ==
    [][ ret'.op = "get_summary" =>
         \A start \in {ret'.summary.period_start} : \A end \in {ret'.summary.period_end} :
           get_summary(start, end) =>
              LET within == {i \in DOMAIN entries :
                                start <= entries[i].timestamp /\ entries[i].timestamp <= end}
                  summary == ret'.summary
                  Split(m, field) ==
                      /\ DOMAIN m = {entries[i][field] : i \in within}
                      /\ \A k \in DOMAIN m :
                            m[k] = LedgerSum({i \in within : entries[i][field] = k})
                      /\ MapSum(m, DOMAIN m) = summary.total_cost
              IN /\ summary.total_cost = LedgerSum(within)
                 /\ summary.request_count = Cardinality(within)
                 /\ Split(summary.by_provider, "provider")
                 /\ Split(summary.by_model, "model")
                 /\ Split(summary.by_user, "user_id") ]_vars

\* C25 witness: the period starts and ends at the timestamp of the second of
\* two entries; that entry is counted and the first is not.
C25_Witness ==
    /\ ret.op = "get_summary"
    /\ Len(entries) = 2
    /\ entries[1].timestamp = 0
    /\ entries[2].timestamp = 43200
    /\ ret.summary.period_start = 43200
    /\ ret.summary.period_end = 43200
    /\ ret.summary.request_count = 1
    /\ ret.summary.total_cost = entries[2].cost

\* C22: on both chat entry points a request of a user whose enforced budget
\* is exceeded is rejected with BudgetExceeded and no adapter's chat is
\* invoked for it.
C22_BudgetCheckedBeforeUpstream ==
    [][ \A request \in ChatRequests : \A o \in ChatOutcomes : \A os \in WalkOutcomes :
           ((chat_completions(request, o, os) \/ complete(request, os, o))
            /\ ~can_request(AnonymousUser, EstimatedCost).ok) =>
              /\ ret'.result = Err("BudgetExceeded")
              /\ ret'.upstream = <<>> ]_vars

\* The account of the database whose adapter produced the response.
ServedBy(r) ==
    IF r.op = "complete" THEN r.target
    ELSE IF r.target # None /\ r.outcomes[1] = "Ok" THEN r.target
    ELSE None

\* C26: a chat request changes accounting state iff its upstream call
\* succeeded: then one CostEntry is appended and the quota tiers of the
\* serving account are debited with the usage of the response; after a
\* failure the ledger, the budgets and the quota tiers are as before.
C26_AccountingIffUpstreamSucceeded ==
    [][ \A request \in ChatRequests : \A o \in ChatOutcomes : \A os \in WalkOutcomes :
           (chat_completions(request, o, os) \/ complete(request, os, o)) =>
              IF ret'.result.ok
              THEN /\ Len(entries') = Len(entries) + 1
                   /\ \A id \in ServedBy(ret') :
                         id \in DOMAIN accounts =>
                            accounts'[id].quotas =
                               ProviderAccount_record_usage(accounts[id], ResponseTokens, 1, now)
              ELSE /\ entries' = entries
                   /\ budgets' = budgets
                   /\ accounts' = accounts ]_vars
\* The edge relation of a workflow restricted to its nodes.
EdgeRelation(w) ==
    {<<w.edges[i].from, w.edges[i].to>> : i \in DOMAIN w.edges}
        \cap (node_ids(w) \X node_ids(w))

\* Some node of N reaches itself along R.
HasCycle(N, R) ==
    \E k \in 1..Cardinality(N) : \E path \in [1..k -> N] :
        /\ \A i \in 1..(k - 1) : <<path[i], path[i + 1]>> \in R
        /\ <<path[k], path[1]>> \in R

Cyclic(w) == HasCycle(node_ids(w), EdgeRelation(w))

\* Position of id in the sequence order.
PositionIn(order, id) == CHOOSE i \in DOMAIN order : order[i] = id

\* C27: topological_sort returns Ok(order) iff the workflow's edge relation
\* restricted to its nodes is acyclic, and then order holds every node id
\* exactly once with `from` before `to` for every edge; for a workflow with a
\* cycle it returns Err, validate reports valid = false with a cycle error and
\* execute runs no node.
C27_TopologicalSortIffAcyclic ==
    /\ ret.op = "topological_sort" =>
          LET w == ret.workflow
              order == ret.result.order
          IN /\ ret.result.ok <=> ~Cyclic(w)
             /\ ret.result.ok =>
                   /\ {order[i] : i \in DOMAIN order} = node_ids(w)
                   /\ Len(order) = Cardinality(node_ids(w))
                   /\ \A e \in EdgeRelation(w) :
                         PositionIn(order, e[1]) < PositionIn(order, e[2])
    /\ ret.op = "validate" =>
          (Cyclic(ret.workflow) =>
              /\ ~ret.result.valid
              /\ \E k \in DOMAIN ret.result.errors : ret.result.errors[k] = "cycle")
    /\ ret.op = "execute" => (Cyclic(ret.workflow) => ret.ran = <<>>)

\* C28: a pick that returns a non-default account through the walk (no
\* return-to-original) returns, among the enabled accounts of the provider
\* with quota available, one of the smallest priority value and, among those
\* of that priority, of the largest min_remaining_tokens.
C28_PickSmallestPriorityLargestRemaining ==
    [][\A p \in ProviderIds :
          (/\ ret'.op = "pick"
           /\ get_available_account(p)
           /\ ret'.via = "walk"
           /\ ret'.result \in DOMAIN accounts
           /\ ~accounts[ret'.result].is_default) =>
              LET r == accounts[ret'.result]
              IN /\ ret'.result \in Usable(p)
                 /\ \A u \in Usable(p) : r.priority <= accounts[u].priority
                 /\ \A u \in Usable(p) :
                       accounts[u].priority = r.priority =>
                           min_remaining_tokens(r) >= min_remaining_tokens(accounts[u])]_vars

\* A walk returned a non-default account ahead of a usable account of the same
\* priority with fewer tokens left and of a usable account of larger priority.
C28_Witness ==
    /\ ret.op = "pick"
    /\ ret.via = "walk"
    /\ ret.result \in DOMAIN accounts
    /\ ~accounts[ret.result].is_default
    /\ \E u \in Usable(ret.provider_id) :
          /\ accounts[u].priority = accounts[ret.result].priority
          /\ min_remaining_tokens(accounts[u]) < min_remaining_tokens(accounts[ret.result])
    /\ \E u \in Usable(ret.provider_id) :
          accounts[u].priority > accounts[ret.result].priority

\* C29: every account a pick returns is, when it is returned, enabled, of the
\* provider asked for, and has quota available on all of its tiers; also when
\* it is returned through return-to-original after update_account or
\* set_default touched it while it was shelved.
C29_PickedAccountIsUsable ==
    (ret.op = "pick" /\ ret.result # "None") =>
        /\ ret.result \in DOMAIN accounts
        /\ accounts[ret.result].enabled
        /\ accounts[ret.result].provider_id = ret.provider_id
        /\ ProviderAccount_has_quota_available(accounts[ret.result], now)

\* C30: an entry original[P] = A names an account that exists, belongs to P
\* and is flagged is_default; set_default and delete_account leave no stale
\* entry behind.
C30_OriginalNamesTheDefault ==
    \A p \in DOMAIN original :
        /\ original[p] \in DOMAIN accounts
        /\ accounts[original[p]].provider_id = p
        /\ accounts[original[p]].is_default

====
